---- MODULE Spec2Model ----
(***************************************************************************)
(* Slack -> Freshdesk ticket wizard: the page computation engine           *)
(* (logic/wizard.py compute_pages), the wizard session store               *)
(* (WIZARD_SESSIONS, open_wizard_first_page, update_wizard) and the        *)
(* wizard_submit handler (routes/core.py).                                 *)
(***************************************************************************)
EXTENDS Integers, Sequences, FiniteSets, TLC

VARIABLES
    meta,             \* Freshdesk side: the form detail and the configured sections
    answers,          \* input of a stand-alone compute_pages call
    result,           \* outcome of the last stand-alone compute_pages call
    WIZARD_SESSIONS,  \* token -> [ticket_form_id, page, values]
    view,             \* the modal the user is looking at
    threads,          \* update_wizard threads: their position and locals
    issued,           \* number of tokens handed out so far (uuid4 is fresh)
    abandoned,        \* names whose stored answer was dropped by a prune
    base,             \* the session as it was when the first thread was started
    failures,         \* background computations that met a failing fetch or a refused views.update
    last,             \* the last handler that ran, and how far it got
    SECTIONS_CACHE,   \* branching.py 11: field id -> sections, the per-field memo
    choices,          \* dropdown field ids whose cached descriptor holds choices
    _SCRAPED_SECTIONS,\* freshdesk.py 495: parent field id -> sections scraped from the portal
    _FIELDS_CACHE,    \* freshdesk.py 494: is a field list loaded
    edits,            \* number of admin-side edits of the sections so far
    lookup,           \* the last section lookup made on its own, what it did, and
                      \* which ids were missed / memoized before the last field-list fetch
    calls,            \* the compute_pages calls made one after the other: answers given, result
    proxy,            \* the last call of the proxy encoder, the resolver or the ticket builder
    _EMAIL_CACHE,     \* slack.py 33: user id -> email address
    email,            \* the last get_user_email call and the Slack methods it called
    entered,          \* token -> what the user has typed into the inputs of the wizard on the screen
    tickets           \* token -> number of tickets POST /api/v2/tickets created for it

wizardVars == <<WIZARD_SESSIONS, view, threads, issued, abandoned, base, failures, last>>
memoVars == <<SECTIONS_CACHE, choices>>
lookupVars == <<_SCRAPED_SECTIONS, _FIELDS_CACHE, edits, lookup, calls>>

ticketVars == <<proxy, _EMAIL_CACHE, email>>

\* what an observer of the wizard notes down; only SpecSubmit keeps these
auditVars == <<entered, tickets>>

vars == <<meta, answers, result, wizardVars, memoVars, lookupVars, ticketVars, auditVars>>

\* ---------------------------------------------------------------- bounds

MaxOrderLen == 2
MaxSections == 2
MaxTokens == 2
MaxThreads == 2
MaxEvents == 2
MaxFailures == 1
MaxLookups == 2
MaxCalls == 2
MaxEdits == 1

\* ------------------------------------------------------- python values

NoneV == [k |-> "none", s |-> "", b |-> FALSE]
StrV(x) == [k |-> "str", s |-> x, b |-> FALSE]
BoolV(x) == [k |-> "bool", s |-> "", b |-> x]

\* Python truthiness: None, "" and False are falsy.
Truthy(v) ==
    CASE v.k = "none" -> FALSE
      [] v.k = "str" -> v.s # ""
      [] OTHER -> v.b

\* str(v)
PyStr(v) ==
    CASE v.k = "none" -> "None"
      [] v.k = "str" -> v.s
      [] OTHER -> IF v.b THEN "True" ELSE "False"

Max(a, b) == IF a >= b THEN a ELSE b
Min(a, b) == IF a <= b THEN a ELSE b

Range(s) == {s[i] : i \in 1..Len(s)}

\* ------------------------------------------------------ field metadata

TEXT_LIKE == {"text", "email", "phone_number", "short_text", "long_text", "custom_text", "custom_url", "url"}
NUMBER_LIKE == {"custom_number", "custom_decimal", "number", "decimal"}
PARAGRAPH_LIKE == {"custom_paragraph", "textarea"}
DATE_LIKE == {"custom_date", "date"}
CHECKBOX_LIKE == {"custom_checkbox", "checkbox", "boolean"}
DROPDOWN_LIKE == {"custom_dropdown", "dropdown", "default_ticket_type"}
NESTED == {"nested_field"}
SKIP_ALWAYS == {"default_requester", "default_source", "default_status", "default_priority", "default_group", "default_agent", "default_product", "default_company"}

Dep(i, n, l) == [id |-> i, name |-> n, level |-> l]

Field(i, n, t, rc, ra, dc, deps, maps) ==
    [id |-> i, name |-> n, type |-> t, required_for_customers |-> rc,
     required_for_agents |-> ra, displayed_to_customers |-> dc,
     customers_can_edit |-> TRUE, dependent_fields |-> deps, section_mappings |-> maps,
     has_choices |-> FALSE]

\* get_ticket_fields_cached(): the global field list, in the order Freshdesk returns it.
fd_fields ==
    << Field(1, "country", "custom_dropdown", TRUE, TRUE, TRUE, <<>>, {}),
       Field(2, "region", "custom_text", TRUE, TRUE, TRUE, <<>>, {10}),
       Field(3, "urgent", "custom_checkbox", FALSE, FALSE, TRUE, <<>>, {}),
       Field(4, "category", "nested_field", TRUE, TRUE, TRUE,
             <<Dep(41, "app", 3), Dep(40, "cat", 2)>>, {}),
       Field(5, "subject", "default_subject", TRUE, TRUE, TRUE, <<>>, {}),
       Field(6, "description", "default_description", TRUE, TRUE, TRUE, <<>>, {}),
       Field(7, "notes", "custom_text", FALSE, FALSE, FALSE, <<>>, {}),
       Field(8, "legacy", "custom_text", TRUE, FALSE, TRUE, <<>>, {}) >>

FieldIds == {fd_fields[i].id : i \in 1..Len(fd_fields)}
UnknownId == 9

\* by_id = {f["id"]: f for f in all_fields}; a missing id is the empty descriptor.
NoField == Field(0, "", "", FALSE, FALSE, FALSE, <<>>, {})
\* (get_field_choices of the descriptor is what ensure_choices left in it)
by_id(fid) ==
    IF fid \in FieldIds
    THEN [fd_fields[CHOOSE i \in 1..Len(fd_fields) : fd_fields[i].id = fid]
             EXCEPT !.has_choices = fid \in choices]
    ELSE NoField

\* the dropdown fields of the field list
DropdownIds == {fd_fields[i].id : i \in {j \in 1..Len(fd_fields) : fd_fields[j].type \in DROPDOWN_LIKE}}

\* The sections an administrator may have configured (admin sections endpoint):
\* numeric is FALSE for an id int() cannot parse.
Sec(i, num, p, ch, fs) == [id |-> i, numeric |-> num, parent |-> p, choices |-> ch, fields |-> fs]

AllSections ==
    << Sec(10, TRUE, 1, <<"FR">>, <<2>>),
       Sec(11, TRUE, 1, <<"US", "FR">>, <<3, UnknownId, 8>>),
       Sec(20, TRUE, 2, <<"X">>, <<4, 7, 3>>),
       Sec(30, TRUE, 3, <<"True">>, <<2>>),
       Sec(31, FALSE, 3, <<"True">>, <<8>>) >>

SectionIds == {AllSections[i].id : i \in 1..Len(AllSections)}

\* get_sections(field_id) for the configuration m: the field's sections in declared order.
get_sections(m, fid) ==
    SelectSeq(AllSections, LAMBDA s : s.parent = fid /\ s.id \in m.secs)

\* get_sections_cached (branching.py 13-18): the memo's entry when there is
\* one, else what get_sections returns
get_sections_uncached(m, fid) == get_sections(m, fid)

get_sections_cached(m, fid) ==
    IF fid \in DOMAIN SECTIONS_CACHE THEN SECTIONS_CACHE[fid] ELSE get_sections(m, fid)

\* the memo after lookups of ids (branching.py 15-17): entries are never replaced
fill(memo, m, ids) ==
    [fid \in DOMAIN memo \cup ids |-> IF fid \in DOMAIN memo THEN memo[fid] ELSE get_sections(m, fid)]

\* ensure_choices (mapping.py 68-77): a dropdown descriptor without choices
\* takes them from the field detail when the detail has any
ensure_choices(m, f) ==
    IF f.type \in DROPDOWN_LIKE /\ ~f.has_choices /\ f.id \in m.detail_choices
    THEN [f EXCEPT !.has_choices = TRUE]
    ELSE f

\* activator_values(sec): the section's choice values as strings.
activator_values(sec) == Range(sec.choices)

\* normalize_id_list: ids of a raw list (entries are plain ids here).
normalize_id_list(raw) == raw

\* ------------------------------------------------------------- answers

\* One entry of view.state.values[block_id]: the input's type and content.
Entry(t, v, n) == [type |-> t, value |-> v, n |-> n]
NoEntry == Entry("", "", 0)

\* extract_input(entry)
extract_input(entry) ==
    CASE entry = NoEntry -> NoneV
      [] entry.type = "plain_text_input" -> IF entry.value = "" THEN NoneV ELSE StrV(entry.value)
      [] entry.type = "static_select" -> IF entry.value = "" THEN NoneV ELSE StrV(entry.value)
      [] entry.type = "datepicker" -> IF entry.value = "" THEN NoneV ELSE StrV(entry.value)
      [] entry.type = "checkboxes" -> BoolV(entry.n > 0)
      [] OTHER -> NoneV

EntryOf(state_values, name) ==
    IF name \in DOMAIN state_values THEN state_values[name] ELSE NoEntry

\* selected_value_for(field, state_values): None for a missing or falsy answer.
selected_value_for(f, state_values) ==
    LET selected == extract_input(EntryOf(state_values, f.name))
    IN IF ~Truthy(selected) THEN NoneV ELSE selected

\* ------------------------------------------------------------ rendering

Block(b, t) == [block_id |-> b, type |-> t]

\* sorted(dep, key=lambda d: d.get("level", 99)): stable insertion sort by level.
RECURSIVE insert_by_level(_, _)
insert_by_level(sorted, d) ==
    IF sorted = <<>> THEN <<d>>
    ELSE IF Head(sorted).level <= d.level THEN <<Head(sorted)>> \o insert_by_level(Tail(sorted), d)
    ELSE <<d>> \o sorted

RECURSIVE sort_by_level(_)
sort_by_level(deps) ==
    IF deps = <<>> THEN <<>>
    ELSE insert_by_level(sort_by_level(SubSeq(deps, 1, Len(deps) - 1)), deps[Len(deps)])

\* normalize_blocks(to_slack_block(field)): the input blocks the field renders,
\* <<>> when to_slack_block returns None or an empty list.
to_slack_block(f) ==
    IF f.type \in SKIP_ALWAYS THEN <<>>
    ELSE IF ~f.displayed_to_customers /\ ~f.required_for_customers THEN <<>>
    ELSE IF ~f.customers_can_edit /\ ~f.required_for_customers THEN <<>>
    ELSE IF f.type = "default_subject" THEN <<Block("subject", "plain_text_input")>>
    ELSE IF f.type = "default_description" THEN <<Block("description", "plain_text_input")>>
    ELSE IF f.type \in TEXT_LIKE \cup NUMBER_LIKE \cup PARAGRAPH_LIKE THEN <<Block(f.name, "plain_text_input")>>
    ELSE IF f.type \in DATE_LIKE THEN <<Block(f.name, "datepicker")>>
    ELSE IF f.type \in CHECKBOX_LIKE THEN <<Block(f.name, "checkboxes")>>
    ELSE IF f.type \in DROPDOWN_LIKE
         THEN <<Block(f.name, IF f.has_choices THEN "static_select" ELSE "plain_text_input")>>
    ELSE IF f.type \in NESTED
         THEN LET deps == sort_by_level(f.dependent_fields)
              IN [i \in 1..Len(deps) |-> Block(deps[i].name, "plain_text_input")]
    ELSE <<>>

\* ---------------------------------------------------------------- pages

FieldPage(fid) == [kind |-> "field", id |-> fid]
Core == [kind |-> "core", id |-> 0]
Terminal == [kind |-> "terminal", id |-> 0]

\* isinstance(item, int)
IsFieldPage(item) == item.kind = "field"

\* form_detail.get("sections"): the section ids of the form.
form_section_ids(m) == m.form_sections

\* ids named in some field's dependent_fields (wizard.py 38-44)
nested_dependent_ids ==
    UNION {{fd_fields[i].dependent_fields[j].id : j \in 1..Len(fd_fields[i].dependent_fields)} : i \in 1..Len(fd_fields)}

\* whether the section takes part for this form (int(id) parses and is a form section)
section_in_form(m, sec) == sec.numeric /\ sec.id \in form_section_ids(m)

\* children of the form's sections of the top-level fields (wizard.py 53-62)
conditional_children(m) ==
    UNION {UNION {Range(normalize_id_list(sec.fields)) :
                    sec \in {s \in Range(get_sections_cached(m, fid)) : section_in_form(m, s)}} :
             fid \in Range(normalize_id_list(m.order))}

dependent_ids(m) == nested_dependent_ids \cup conditional_children(m)

_section_orphan(m, fid) ==
    LET f == by_id(fid)
    IN f.section_mappings # {} /\ f.section_mappings \cap form_section_ids(m) = {}

_skip_unlinked_required(m, fid) ==
    LET f == by_id(fid)
    IN IF fid \in dependent_ids(m) THEN FALSE
       ELSE IF f.dependent_fields # <<>> THEN FALSE
       ELSE f.required_for_customers /\ ~f.required_for_agents

\* every field of the global list taken as a top-level field
id_order_all_fields(m) == [i \in 1..Len(fd_fields) |-> fd_fields[i].id]

\* the filtered top-level order (wizard.py 79-98)
id_order(m) ==
    LET kept == SelectSeq(normalize_id_list(m.order),
                          LAMBDA fid : fid \notin conditional_children(m) /\ ~_section_orphan(m, fid))
    IN SelectSeq(kept, LAMBDA fid : ~_skip_unlinked_required(m, fid))

\* wizard.py 125-132: the section's children are expanded for the answer sel
section_ignores_activators(m, sec, sel) == section_in_form(m, sec)

section_active(m, sec, sel) == section_in_form(m, sec) /\ sel \in activator_values(sec)

\* The traversal state: pages so far, visited ids, the last call's return value
\* (ok = "not blocked"), the sections examined / expanded on the way, and the
\* ids add_field_and_children was called with, in call order (refs).
NewTraversal ==
    [pages |-> <<>>, visited |-> {}, ok |-> TRUE, reached |-> {}, expanded |-> {}, refs |-> <<>>]

RECURSIVE add_field_and_children(_, _, _, _)
RECURSIVE expand_children(_, _, _, _)
RECURSIVE expand_sections(_, _, _, _, _)

\* wizard.py 107-109: the field has a descriptor, is not a core field, and
\* (110-112) renders at least one block
renders(m, fid) ==
    /\ fid \in FieldIds
    /\ by_id(fid).type \notin {"default_subject", "default_description"}
    /\ to_slack_block(ensure_choices(m, by_id(fid))) # <<>>

\* wizard.py 106-141: a field met for the first time
visit_field(m, state_values, st, fid) ==
    LET st1 == [st EXCEPT !.visited = @ \cup {fid}, !.ok = TRUE, !.refs = Append(@, fid)]
        f == by_id(fid)
    IN IF ~renders(m, fid) THEN st1
       ELSE LET st2 == [st1 EXCEPT !.pages = Append(@, FieldPage(fid))]
            IN IF f.type # "nested_field"
               THEN LET selected == selected_value_for(f, state_values)
                    IN IF selected = NoneV THEN [st2 EXCEPT !.ok = FALSE]
                       ELSE expand_sections(m, state_values, st2,
                                            get_sections_cached(m, fid), PyStr(selected))
               ELSE st2

\* a field met again gets another page
add_field_again(m, state_values, st, fid) ==
    IF fid \in st.visited
    THEN [st EXCEPT !.ok = TRUE, !.refs = Append(@, fid),
                    !.pages = IF renders(m, fid) THEN Append(@, FieldPage(fid)) ELSE @]
    ELSE visit_field(m, state_values, st, fid)

\* wizard.py 103-141
add_field_and_children(m, state_values, st, fid) ==
    IF fid \in st.visited THEN [st EXCEPT !.ok = TRUE, !.refs = Append(@, fid)]
    ELSE visit_field(m, state_values, st, fid)

expand_sections(m, state_values, st, secs, sel) ==
    IF secs = <<>> THEN [st EXCEPT !.ok = TRUE]
    ELSE LET sec == Head(secs)
             st1 == [st EXCEPT !.reached = @ \cup {sec.id}]
         IN IF ~section_active(m, sec, sel)
            THEN expand_sections(m, state_values, st1, Tail(secs), sel)
            ELSE LET st2 == expand_children(m, state_values,
                                            [st1 EXCEPT !.expanded = @ \cup {sec.id}],
                                            normalize_id_list(sec.fields))
                 IN IF ~st2.ok THEN st2
                    ELSE expand_sections(m, state_values, st2, Tail(secs), sel)

\* the children taken from the last to the first
RECURSIVE expand_children_reversed(_, _, _, _)
expand_children_reversed(m, state_values, st, ids) ==
    IF ids = <<>> THEN [st EXCEPT !.ok = TRUE]
    ELSE LET st1 == add_field_and_children(m, state_values, st, ids[Len(ids)])
         IN IF ~st1.ok THEN st1
            ELSE expand_children_reversed(m, state_values, st1, SubSeq(ids, 1, Len(ids) - 1))

expand_children(m, state_values, st, ids) ==
    IF ids = <<>> THEN [st EXCEPT !.ok = TRUE]
    ELSE LET st1 == add_field_and_children(m, state_values, st, Head(ids))
         IN IF ~st1.ok THEN st1
            ELSE expand_children(m, state_values, st1, Tail(ids))

\* a scan that goes on after a blocked field
RECURSIVE scan_all(_, _, _, _)
scan_all(m, state_values, st, ids) ==
    IF ids = <<>> THEN st
    ELSE scan_all(m, state_values, add_field_and_children(m, state_values, st, Head(ids)), Tail(ids))

traverse_past_blocked(m, state_values) == scan_all(m, state_values, NewTraversal, id_order(m))

\* a visited set that is emptied before every top-level field
RECURSIVE scan_with_fresh_visited(_, _, _, _)
scan_with_fresh_visited(m, state_values, st, ids) ==
    IF ids = <<>> THEN [st EXCEPT !.ok = TRUE]
    ELSE LET st1 == add_field_and_children(m, state_values, [st EXCEPT !.visited = {}], Head(ids))
         IN IF ~st1.ok THEN st1
            ELSE scan_with_fresh_visited(m, state_values, st1, Tail(ids))

traverse_visited_per_field(m, state_values) ==
    scan_with_fresh_visited(m, state_values, NewTraversal, id_order(m))

\* wizard.py 143-145: the top-level scan, broken off at the first blocked field
traverse_answered_first(m, state_values) ==
    LET answered(fid) == fid \in FieldIds /\ selected_value_for(by_id(fid), state_values) # NoneV
        order == SelectSeq(id_order(m), answered)
                   \o SelectSeq(id_order(m), LAMBDA fid : ~answered(fid))
    IN expand_children(m, state_values, NewTraversal, order)

traverse(m, state_values) == expand_children(m, state_values, NewTraversal, id_order(m))

\* wizard.py 147-148
finish_without_core_when_blocked(st) ==
    IF st.ok THEN st.pages \o <<Core, Terminal>> ELSE st.pages \o <<Terminal>>

finish(st) == Append(Append(st.pages, Core), Terminal)

compute_pages(m, state_values) == finish(traverse(m, state_values))

\* the ids whose sections a compute_pages call with traversal st looks up:
\* every id of the raw order (wizard.py 54-55) and every emitted, answered
\* non-container field (124)
consulted(m, state_values, st) ==
    Range(normalize_id_list(m.order))
      \cup {st.pages[i].id : i \in {j \in 1..Len(st.pages) :
                /\ by_id(st.pages[j].id).type # "nested_field"
                /\ selected_value_for(by_id(st.pages[j].id), state_values) # NoneV}}

\* the dropdown fields the call hands to ensure_choices (wizard.py 110) and
\* for which the field detail has choices
fetched_choices(m, st) == st.visited \cap DropdownIds \cap m.detail_choices

\* the memo and the descriptors after a compute_pages call with traversal st
after_traversal(m, state_values, st) ==
    [memo |-> fill(SECTIONS_CACHE, m, consulted(m, state_values, st)),
     choices |-> choices \cup fetched_choices(m, st)]

\* the memo and the descriptors after compute_pages calls on each of the answer sets
after_compute_pages(m, answer_sets) ==
    CHOOSE after \in
        {[memo |-> fill(SECTIONS_CACHE, m, UNION {d.ids : d \in done}),
          choices |-> choices \cup UNION {d.choices : d \in done}] :
           done \in {UNION {{[ids |-> consulted(m, a, st), choices |-> fetched_choices(m, st)] :
                                st \in {traverse(m, a)}} : a \in answer_sets}}} : TRUE

\* A call of compute_pages: get_form_detail may raise (wizard.py 27), and then
\* the call raises; otherwise it returns the page list.
NoResult ==
    [called |-> FALSE, raised |-> FALSE, pages |-> <<>>, reached |-> {}, expanded |-> {}, refs |-> <<>>]

returned_from(st) ==
    [called |-> TRUE, raised |-> FALSE, pages |-> finish(st),
     reached |-> st.reached, expanded |-> st.expanded, refs |-> st.refs]

call_compute_pages(m, state_values, detail_ok) ==
    IF ~detail_ok THEN [NoResult EXCEPT !.called = TRUE, !.raised = TRUE]
    ELSE CHOOSE returned \in {returned_from(st) : st \in {traverse(m, state_values)}} : TRUE

\* ------------------------------------------- configurations and inputs

\* ids a form may list as its top-level fields
TopIds == {1, 2, 3, 5, 8}

SeqsNoRepeat(S, n) == {q \in UNION {[1..k -> S] : k \in 0..n} : \A i, j \in DOMAIN q : i # j => q[i] # q[j]}

Orders == SeqsNoRepeat(TopIds, MaxOrderLen)

SectionSets == {S \in SUBSET SectionIds : Cardinality(S) <= MaxSections}

Meta(o, S, F) == [order |-> o, secs |-> S, form_sections |-> F, detail_choices |-> DropdownIds]

\* every configuration within the bounds: a top-level order, the configured
\* sections, and the sections the form detail lists
AllMetas == UNION {{Meta(o, S, F) : o \in Orders, F \in SUBSET S} : S \in SectionSets}

\* what the client can send for an input block of the given type
EntriesOfType(t, vals) ==
    IF t = "checkboxes" THEN {Entry(t, "", 0), Entry(t, "", 1)}
    ELSE {Entry(t, v, 0) : v \in vals}

\* the values a user enters under each block id ("" is an input left empty)
ValuesOfName(name) ==
    CASE name = "country" -> {"US", "FR", ""}
      [] name = "region" -> {"X", ""}
      [] name = "subject" -> {"s"}
      [] OTHER -> {"x"}

\* the functions on D that map each d to an element of R[d]
FnsInto(D, R) == {f \in [D -> UNION {R[d] : d \in D}] : \A d \in D : f[d] \in R[d]}

PartialFns(D, R) == UNION {FnsInto(S, R) : S \in SUBSET D}

AnswerEntries(name) ==
    CASE name = "country" -> {Entry("static_select", "US", 0), Entry("static_select", "FR", 0)}
      [] name = "region" -> {Entry("plain_text_input", "X", 0)}
      [] name = "urgent" -> {Entry("checkboxes", "", 0), Entry("checkboxes", "", 1)}
      [] OTHER -> {Entry("plain_text_input", "L", 0)}

\* the answer sets a stand-alone compute_pages call is tried on
AllAnswers ==
    PartialFns({"country", "region", "urgent"}, [n \in {"country", "region", "urgent"} |-> AnswerEntries(n)])

\* the modal: kind is none | loading | wizard | done; pending marks a spawned
\* open_wizard_first_page thread that has not run yet
\* callback_id, submit and nav_elems are those of wizard.py 191-220; the loading
\* and the success modal have no submit button and no wizard_nav block
View(k, pend, t, p, it, n) ==
    [kind |-> k, pending |-> pend, token |-> t, page_index |-> p, item |-> it, total |-> n,
     callback_id |-> "", submit |-> FALSE, nav_elems |-> {}]
NoView == View("none", FALSE, 0, 0, Terminal, 0)

NoTicket == [subject |-> "", description |-> "", custom_fields |-> <<>>]

\* what the last handler did: op (open | update | submit | close), the token it
\* worked on, the navigation asked for, how far it got (stage), the page index
\* it found stored, the names its prune dropped, whether the user's view was
\* updated, whether a ticket was created, and the ticket and the merged answers
\* given to the assembler, the views.update calls it made (sends), and for a
\* submission the page item of the view it came from
NoLast ==
    [op |-> "none", token |-> 0, nav |-> "none", stage |-> "none", page0 |-> 0,
     dropped |-> {}, updated |-> FALSE, created |-> FALSE,
     ticket |-> NoTicket, merged |-> <<>>, sends |-> <<>>, item |-> Terminal]

\* no field list fetched yet (freshdesk.py 494: expires 0)
NoFieldsCache == [loaded |-> FALSE]

\* no section lookup made yet
NoLookup ==
    [op |-> "none", id |-> 0, answered |-> FALSE, raised |-> FALSE, value |-> <<>>,
     asked |-> FALSE, scraped |-> FALSE, stale |-> {}, was_stale |-> FALSE,
     missed |-> {}, repeated |-> FALSE, n |-> 0]

\* a string as the proxy encoder sees it: whether it starts with "hash:", the
\* characters after that prefix (or all of them), len() and len(encode("utf-8"))
Text(p, r, n, u) == [pre |-> p, rest |-> r, len |-> n, utf8 |-> u]
NoText == Text("", "", 0, 0)

\* no call of the encoder, the resolver or the ticket builder yet: op, the field
\* name, the string that was encoded (raw), the value handed to the resolver,
\* what came back (out) or that the call raised, whether the field list was
\* fetched and a warning logged, the candidates the field list held, and for the
\* ticket builder the type-selector answer, how the form detail answered, whether
\* a form was chosen, and the ticket's type ("" when the payload has none)
NoProxy ==
    [op |-> "none", field |-> "", raw |-> NoText, value |-> NoText, out |-> NoText,
     raised |-> FALSE, fetched |-> FALSE, warned |-> FALSE, candidates |-> <<>>,
     type_answer |-> "", form |-> "none", has_form |-> FALSE, type |-> ""]

\* no get_user_email call yet: the user, whether the cache held an address for
\* it, the Slack methods called in order, and the address returned ("" is None)
NoEmail == [op |-> "none", user |-> "", cached |-> FALSE, methods |-> <<>>, returned |-> ""]

\* nothing encoded, resolved or looked up yet (slack.py 33: the cache starts empty)
TicketIdle ==
    /\ proxy = NoProxy
    /\ _EMAIL_CACHE = <<>>
    /\ email = NoEmail

\* nothing typed and no ticket created yet
AuditIdle ==
    /\ entered = <<>>
    /\ tickets = <<>>

\* ------------------------------------------- compute_pages on its own

InitPages ==
    /\ meta \in AllMetas
    /\ SECTIONS_CACHE = <<>>
    /\ choices = DropdownIds
    /\ answers \in AllAnswers
    /\ result = NoResult
    /\ WIZARD_SESSIONS = <<>>
    /\ view = NoView
    /\ threads = <<>>
    /\ issued = 0
    /\ abandoned = {}
    /\ base = <<>>
    /\ failures = 0
    /\ last = NoLast
    /\ _SCRAPED_SECTIONS = <<>>
    /\ _FIELDS_CACHE = NoFieldsCache
    /\ edits = 0
    /\ lookup = NoLookup
    /\ calls = <<>>
    /\ TicketIdle
    /\ AuditIdle

ComputePages ==
    /\ ~result.called
    /\ \E detail_ok \in BOOLEAN :
          IF detail_ok
          THEN \E st \in {traverse(meta, answers)} :
               \E after \in {after_traversal(meta, answers, st)} :
                 /\ result' = returned_from(st)
                 /\ SECTIONS_CACHE' = after.memo
                 /\ choices' = after.choices
          ELSE /\ result' = call_compute_pages(meta, answers, FALSE)
               /\ UNCHANGED memoVars
    /\ UNCHANGED <<meta, answers, WIZARD_SESSIONS, view, threads, issued, abandoned, base, failures, last, lookupVars, ticketVars, auditVars>>

NextPages == ComputePages

SpecPages == InitPages /\ [][NextPages]_vars

\* ------------------------------------------------ claims on compute_pages

\* the child ids the configured sections of field fid name
SectionChildren(m, fid) ==
    UNION {Range(sec.fields) : sec \in Range(get_sections(m, fid))}

RECURSIVE Descendants(_, _)
Descendants(m, S) ==
    LET more == S \cup UNION {SectionChildren(m, f) : f \in S}
    IN IF more = S THEN S ELSE Descendants(m, more)

\* no field is its own descendant through the configured sections
Acyclic(m) ==
    \A f \in FieldIds : f \notin Descendants(m, SectionChildren(m, f))

Count(pages, item) == Cardinality({i \in 1..Len(pages) : pages[i] = item})

Returned == result.called /\ ~result.raised

\* C1: for an acyclic field graph and any answer set, a compute_pages call that
\* gets the form detail returns a list whose last two items are Core then
\* Terminal, each occurring exactly once.
C1_EndsWithCoreTerminal ==
    (Returned /\ Acyclic(meta)) =>
        LET pages == result.pages
            n == Len(pages)
        IN /\ n >= 2
           /\ pages[n - 1] = Core
           /\ pages[n] = Terminal
           /\ Count(pages, Core) = 1
           /\ Count(pages, Terminal) = 1

\* C1 witness: a two-field form with sections whose traversal is blocked at the
\* first field.
C1_Witness ==
    /\ Returned /\ Acyclic(meta)
    /\ meta.secs # {}
    /\ Len(id_order(meta)) = 2
    /\ Len(result.pages) = 3
    /\ IsFieldPage(result.pages[1])
    /\ selected_value_for(by_id(result.pages[1].id), answers) = NoneV

\* the emitted, answered, non-container parents of a returned page list, each
\* with a section attached to it that the traversal examined
ExaminedSections ==
    {ps \in {<<result.pages[i].id, sec>> :
                i \in {j \in 1..Len(result.pages) : IsFieldPage(result.pages[j])},
                sec \in Range(AllSections)} :
        /\ ps[2] \in Range(get_sections_cached(meta, ps[1]))
        /\ ps[2].id \in result.reached
        /\ by_id(ps[1]).type # "nested_field"
        /\ selected_value_for(by_id(ps[1]), answers) # NoneV}

AnswerString(fid) == PyStr(selected_value_for(by_id(fid), answers))

\* the first child of an expanded section has a page when it is a field that renders
FirstChildPaged(sec) ==
    LET c == by_id(Head(sec.fields))
    IN (c.id \in FieldIds /\ c.type \notin {"default_subject", "default_description"}
        /\ to_slack_block(c) # <<>>) => FieldPage(c.id) \in Range(result.pages)

FormId == 1

Session(form, page, values) ==
    [ticket_form_id |-> form, page |-> page, values |-> values]

\* the keys of WIZARD_SESSIONS
Stored == DOMAIN WIZARD_SESSIONS

\* del d[k]
without(d, k) == [t \in DOMAIN d \ {k} |-> d[t]]

\* wizard.py 256: {**old, **new}
merge(values, new_state_values) == new_state_values @@ values

\* wizard.py 272-278: names of the fields that have a page
all_field_names(pages) == {fd_fields[i].name : i \in 1..Len(fd_fields)}

\* only the pages of the form's own field list counted
valid_names_top_level(pages) ==
    {by_id(pages[i].id).name :
        i \in {j \in 1..Len(pages) : IsFieldPage(pages[j]) /\ pages[j].id \in FieldIds
                                      /\ pages[j].id \in Range(normalize_id_list(meta.order))
                                      /\ by_id(pages[j].id).name # ""}}

valid_names(pages) ==
    {by_id(pages[i].id).name :
        i \in {j \in 1..Len(pages) : IsFieldPage(pages[j]) /\ pages[j].id \in FieldIds
                                      /\ by_id(pages[j].id).name # ""}}

\* wizard.py 279
keep_all(values, valid) == values

prune(values, valid) == [k \in DOMAIN values \cap valid |-> values[k]]

\* wizard.py 282 and 186
clamp(page, total) == Max(0, Min(page, total - 1))

\* wizard.py 288-292
always_advance(current_item, values) == TRUE

allow_advance(current_item, values) ==
    ~(/\ IsFieldPage(current_item)
      /\ current_item.id \in FieldIds
      /\ selected_value_for(by_id(current_item.id), values) = NoneV)

\* wizard.py 294
prev_unfloored(page) == page - 1

prev_page(page) == Max(page - 1, 0)

\* wizard.py 282-296: the page index after the navigation
navigate(pages, stored_page, nav, values) ==
    LET page == clamp(stored_page, Len(pages))
        current_item == pages[page + 1]
    IN CASE nav = "next" ->
              IF allow_advance(current_item, values) THEN Min(page + 1, Len(pages) - 1) ELSE page
         [] nav = "prev" -> prev_page(page)
         [] OTHER -> page

\* build_fields_for_page: the input blocks of a page item
build_fields_for_page(page_item) ==
    CASE page_item = Core ->
           LET subj == SelectSeq(fd_fields, LAMBDA f : f.type = "default_subject")
               desc == SelectSeq(fd_fields, LAMBDA f : f.type = "default_description")
           IN (IF subj = <<>> THEN <<>> ELSE to_slack_block(Head(subj)))
              \o (IF desc = <<>> THEN <<>> ELSE to_slack_block(Head(desc)))
      [] page_item = Terminal -> <<>>
      [] OTHER -> IF page_item.id \in FieldIds
                  THEN to_slack_block(ensure_choices(meta, by_id(page_item.id)))
                  ELSE <<>>

\* wizard.py 191-206: the buttons of the wizard_nav block
nav_elems(page, total) ==
    (IF page > 0 THEN {"wizard_prev"} ELSE {})
    \cup (IF page < total - 1 THEN {"wizard_next"} ELSE {})

\* wizard.py 183-223 with the submit button also on the Core page
build_wizard_page_modal_submit_on_core(token, page, state_values) ==
    CHOOSE v \in {[View("wizard", FALSE, token, clamp(page, Len(pages)),
                        pages[clamp(page, Len(pages)) + 1], Len(pages))
                     EXCEPT !.callback_id = IF pages[clamp(page, Len(pages)) + 1] \in {Core, Terminal}
                                            THEN "wizard_submit" ELSE "wizard_page",
                            !.submit = pages[clamp(page, Len(pages)) + 1] \in {Core, Terminal},
                            !.nav_elems = nav_elems(clamp(page, Len(pages)), Len(pages))] :
                    pages \in {compute_pages(meta, state_values)}} : TRUE

\* build_wizard_page_modal (wizard.py 183-223): the view for a page index;
\* private_metadata holds the token and the clamped index, the callback is
\* wizard_submit and the view has a submit button iff the item is None
build_wizard_page_modal(token, page, state_values) ==
    CHOOSE v \in {[View("wizard", FALSE, token, clamp(page, Len(pages)),
                        pages[clamp(page, Len(pages)) + 1], Len(pages))
                     EXCEPT !.callback_id = IF pages[clamp(page, Len(pages)) + 1] = Terminal
                                            THEN "wizard_submit" ELSE "wizard_page",
                            !.submit = pages[clamp(page, Len(pages)) + 1] = Terminal,
                            !.nav_elems = nav_elems(clamp(page, Len(pages)), Len(pages))] :
                    pages \in {compute_pages(meta, state_values)}} : TRUE

\* the navigation a block_actions event of the view can carry (routes/core.py
\* 135-140): none for a changed input, prev / next for a button of the view
NavsOf(v) ==
    {"none"} \cup (IF "wizard_prev" \in v.nav_elems THEN {"prev"} ELSE {})
             \cup (IF "wizard_next" \in v.nav_elems THEN {"next"} ELSE {})

\* view.state.values of the view: one entry for each of its input blocks
StateValuesOf(v) ==
    LET blocks == build_fields_for_page(v.item)
        ids == {blocks[i].block_id : i \in 1..Len(blocks)}
        typeOf == [b \in ids |-> blocks[CHOOSE i \in 1..Len(blocks) : blocks[i].block_id = b].type]
    IN FnsInto(ids, [b \in ids |-> EntriesOfType(typeOf[b], ValuesOfName(b))])

\* how the metadata fetches of a background computation can end
OpenEnvs == {"ok", "form_missing", "detail_raise"}
UpdateEnvs == {"ok", "form_missing", "detail2_raise"}

\* what Slack answers to the first views.update call and to a second one
SlackAnswer(first, second) == [first |-> first, second |-> second]
SlackAnswers ==
    {SlackAnswer("ok", "ok"), SlackAnswer("error", "ok"),
     SlackAnswer("hash_conflict", "ok"), SlackAnswer("hash_conflict", "error")}

\* one views.update call: was the hash sent, the view, and Slack's answer
Attempt(with_hash, v, answer) == [hash |-> with_hash, view |-> v, answer |-> answer]

\* wizard.py 237-245 and 301-309: the views.update calls made for a built view
send_on_any_error(v, first, second) ==
    IF first # "ok" THEN <<Attempt(TRUE, v, first), Attempt(FALSE, v, second)>>
    ELSE <<Attempt(TRUE, v, first)>>

send_view(v, first, second) ==
    IF first = "hash_conflict" THEN <<Attempt(TRUE, v, first), Attempt(FALSE, v, second)>>
    ELSE <<Attempt(TRUE, v, first)>>

\* the view reached the user iff the last call was answered ok
Delivered(sends) == sends # <<>> /\ sends[Len(sends)].answer = "ok"

\* the last statement of update_wizard that took effect under env; "paged"
\* is the view built and handed to views.update
StageOf(env) ==
    CASE env = "form_missing" -> "merged"
      [] env = "detail2_raise" -> "pruned"
      [] OTHER -> "paged"

\* the session after update_wizard got as far as stage (wizard.py 256-298)
session_after_update(sess, new_state_values, nav, stage) ==
    LET merged == merge(sess.values, new_state_values)
    IN CASE stage = "merged" -> [sess EXCEPT !.values = merged]
         [] OTHER ->
              CHOOSE after \in UNION
                  {IF stage = "pruned" THEN {[sess EXCEPT !.values = pruned]}
                   ELSE {[sess EXCEPT !.values = pruned,
                                      !.page = navigate(pages, sess.page, nav, pruned)] :
                           pages \in {compute_pages(meta, pruned)}} :
                     pruned \in {prune(merged, valid_names(compute_pages(meta, merged)))}} : TRUE

\* the store holding nothing but the session just updated
store_only_session(sessions, token, after) == token :> after

\* wizard.py 252, 256, 279, 296: sess is the dict held by the store, so the
\* assignments to its keys change that one entry of the store
store_session(sessions, token, after) == [sessions EXCEPT ![token] = after]

\* modal_values_to_fd_ticket (ticket.py 44-56, 67-69): subject, description and
\* the custom fields
modal_values_to_fd_ticket(values) ==
    LET val(k) == extract_input(values[k])
        text(k, dflt) == IF k \in DOMAIN values /\ Truthy(val(k)) THEN PyStr(val(k)) ELSE dflt
        custom == {k \in DOMAIN values :
                     /\ k \notin {"subject", "description", "type", "ticket_type", "default_ticket_type"}
                     /\ val(k) # NoneV
                     /\ val(k) # StrV("__noop__")}
    IN [subject |-> text("subject", "New ticket"),
        description |-> text("description", "(no description)"),
        custom_fields |-> [k \in custom |-> val(k)]]

\* routes/core.py 220-221: the store after wizard_submit
sessions_deleted_always(sessions, token, created) == without(sessions, token)

sessions_after_submit(sessions, token, created) ==
    IF created /\ token \in DOMAIN sessions THEN without(sessions, token) ELSE sessions

\* ------------------------------------------------- the wizard, handler by handler

ScenarioMeta == Meta(<<1>>, {10}, {10})

\* the forms the wizard is run on: the country/region scenario, and a form whose
\* sections chain from a checkbox to a text field to a nested container (and
\* loop back to the checkbox)
WizardMetas ==
    {ScenarioMeta,
     Meta(<<3, 1>>, {20, 30}, {20, 30})}

Init ==
    /\ meta \in WizardMetas
    /\ SECTIONS_CACHE = <<>>
    /\ choices = DropdownIds
    /\ answers = <<>>
    /\ result = NoResult
    /\ WIZARD_SESSIONS = <<>>
    /\ view = NoView
    /\ threads = <<>>
    /\ issued = 0
    /\ abandoned = {}
    /\ base = <<>>
    /\ failures = 0
    /\ last = NoLast
    /\ _SCRAPED_SECTIONS = <<>>
    /\ _FIELDS_CACHE = NoFieldsCache
    /\ edits = 0
    /\ lookup = NoLookup
    /\ calls = <<>>
    /\ TicketIdle
    /\ AuditIdle

\* routes/core.py 87-121: the form is picked; the response shows the loading
\* modal and open_wizard_first_page is started in a thread
PickForm ==
    /\ view.kind = "none"
    /\ issued < MaxTokens
    /\ view' = View("loading", TRUE, 0, 0, Terminal, 0)
    /\ last' = [NoLast EXCEPT !.op = "pick"]
    /\ UNCHANGED <<meta, answers, result, WIZARD_SESSIONS, threads, issued, abandoned, base, failures, memoVars, lookupVars, ticketVars>>

\* wizard.py 226-248
open_wizard_first_page(env) ==
    /\ view.kind = "loading"
    /\ view.pending
    /\ LET token == issued + 1
           made == env # "form_missing"
           sending == env = "ok"
       IN \E built \in {build_wizard_page_modal(token, 0, <<>>)} :
          \E computed \in {after_compute_pages(meta, IF sending THEN {<<>>} ELSE {})} :
          \E slack \in IF sending THEN SlackAnswers ELSE {SlackAnswer("ok", "ok")} :
            LET sends == IF sending THEN send_view(built, slack.first, slack.second) ELSE <<>>
                shown == Delivered(sends)
                clean == shown /\ Len(sends) = 1
            IN /\ ~clean => failures < MaxFailures
               /\ failures' = IF clean THEN failures ELSE failures + 1
               /\ WIZARD_SESSIONS' =
                     IF made THEN (token :> Session(FormId, 0, <<>>)) @@ WIZARD_SESSIONS
                     ELSE WIZARD_SESSIONS
               /\ issued' = IF made THEN token ELSE issued
               /\ SECTIONS_CACHE' = computed.memo
               /\ choices' = computed.choices
               /\ abandoned' = IF made THEN {} ELSE abandoned
               /\ view' = IF shown THEN built ELSE [view EXCEPT !.pending = FALSE]
               /\ last' = [NoLast EXCEPT !.op = "open", !.token = IF made THEN token ELSE 0,
                                         !.stage = IF shown THEN "shown" ELSE IF made THEN "made" ELSE "failed",
                                         !.updated = shown, !.sends = sends]
    /\ UNCHANGED <<meta, answers, result, threads, base, lookupVars, ticketVars>>

\* routes/core.py 124-146 and wizard.py 250-311: a block_actions event of the
\* wizard view, handled by update_wizard in one piece
update_wizard_for(token, new_state_values, nav, env) ==
    /\ IF token \notin Stored
          THEN /\ failures < MaxFailures
               /\ failures' = failures + 1
               /\ last' = [NoLast EXCEPT !.op = "update", !.token = token, !.nav = nav,
                                         !.stage = "expired"]
               /\ UNCHANGED <<WIZARD_SESSIONS, view, abandoned, memoVars>>
          ELSE LET sess == WIZARD_SESSIONS[token]
                   reached == StageOf(env)
                   sending == reached = "paged"
               IN \E after \in {session_after_update(sess, new_state_values, nav, reached)} :
                  \E built \in {build_wizard_page_modal(token, after.page, after.values)} :
                  \E computed \in {after_compute_pages(meta,
                                     CASE reached = "merged" -> {}
                                       [] reached = "pruned" -> {merge(sess.values, new_state_values)}
                                       [] OTHER -> {merge(sess.values, new_state_values), after.values})} :
                  \E slack \in IF sending THEN SlackAnswers ELSE {SlackAnswer("ok", "ok")} :
                    LET dropped == DOMAIN merge(sess.values, new_state_values) \ DOMAIN after.values
                        sends == IF sending THEN send_view(built, slack.first, slack.second) ELSE <<>>
                        shown == Delivered(sends)
                        clean == shown /\ Len(sends) = 1
                    IN /\ ~clean => failures < MaxFailures
                       /\ failures' = IF clean THEN failures ELSE failures + 1
                       /\ WIZARD_SESSIONS' = store_session(WIZARD_SESSIONS, token, after)
                       /\ SECTIONS_CACHE' = computed.memo
                       /\ choices' = computed.choices
                       /\ view' = IF shown THEN built ELSE view
                       /\ abandoned' = abandoned \cup (dropped \cap DOMAIN sess.values)
                       /\ last' = [NoLast EXCEPT !.op = "update", !.token = token, !.nav = nav,
                                                 !.stage = IF shown THEN "shown" ELSE reached,
                                                 !.page0 = sess.page, !.dropped = dropped,
                                                 !.updated = shown, !.sends = sends]
    /\ UNCHANGED <<meta, answers, result, threads, issued, base, lookupVars, ticketVars>>

\* an event of the wizard view on the screen
update_wizard(new_state_values, nav, env) ==
    /\ view.kind = "wizard"
    /\ update_wizard_for(view.token, new_state_values, nav, env)

\* the Back button of the Terminal view was pressed together with Create: its
\* block_actions event is handled after the ticket was created
update_wizard_late ==
    /\ view.kind = "done"
    /\ update_wizard_for(view.token, <<>>, "prev", "ok")

\* routes/core.py 201-235: a view_submission with callback wizard_submit whose
\* private_metadata names token, sent from a view showing item
handle_wizard_submit(token, item, state_values, created) ==
    LET session_values == IF token \in Stored THEN WIZARD_SESSIONS[token].values ELSE <<>>
        merged == merge(session_values, state_values)
    IN /\ WIZARD_SESSIONS' = sessions_after_submit(WIZARD_SESSIONS, token, created)
       /\ view' = IF created THEN View("done", FALSE, token, 0, Terminal, 0) ELSE view
       /\ last' = [NoLast EXCEPT !.op = "submit", !.token = token, !.created = created,
                                 !.updated = TRUE, !.item = item,
                                 !.ticket = modal_values_to_fd_ticket(merged),
                                 !.merged = merged]

\* the Create button of the view on the screen
wizard_submit(state_values, created) ==
    /\ view.kind = "wizard"
    /\ view.submit
    /\ view.callback_id = "wizard_submit"
    /\ handle_wizard_submit(view.token, view.item, state_values, created)
    /\ UNCHANGED <<meta, answers, result, threads, issued, abandoned, base, failures, memoVars, lookupVars, ticketVars>>

\* the submission just handled arrives once more (a second click before the
\* response changed the view, or a retry of the transport): the route handles
\* the same payload again
wizard_submit_redelivered(created) ==
    /\ last.op = "submit"
    /\ handle_wizard_submit(last.token, last.item, <<>>, created)
    /\ UNCHANGED <<meta, answers, result, threads, issued, abandoned, base, failures, memoVars, lookupVars, ticketVars>>

\* the user closes the modal after the ticket, or a loading modal that never changed
CloseModal ==
    /\ \/ view.kind = "done"
       \/ view.kind = "loading" /\ ~view.pending
    /\ view' = NoView
    /\ last' = [NoLast EXCEPT !.op = "close"]
    /\ UNCHANGED <<meta, answers, result, WIZARD_SESSIONS, threads, issued, abandoned, base, failures, memoVars, lookupVars, ticketVars>>

Next ==
    \/ PickForm /\ UNCHANGED auditVars
    \/ \E env \in OpenEnvs : open_wizard_first_page(env) /\ UNCHANGED auditVars
    \/ \E nav \in NavsOf(view), env \in UpdateEnvs :
          \E new_state_values \in StateValuesOf(view) :
             update_wizard(new_state_values, nav, env) /\ UNCHANGED auditVars
    \/ \E created \in BOOLEAN :
          \E state_values \in StateValuesOf(view) :
             wizard_submit(state_values, created) /\ UNCHANGED auditVars
    \/ CloseModal /\ UNCHANGED auditVars

Spec == Init /\ [][Next]_vars

\* the wizard with navigation events that arrive after the submission
NextLate ==
    \/ PickForm /\ UNCHANGED auditVars
    \/ \E env \in OpenEnvs : open_wizard_first_page(env) /\ UNCHANGED auditVars
    \/ \E nav \in NavsOf(view), env \in UpdateEnvs :
          \E new_state_values \in StateValuesOf(view) :
             update_wizard(new_state_values, nav, env) /\ UNCHANGED auditVars
    \/ update_wizard_late /\ UNCHANGED auditVars
    \/ \E created \in BOOLEAN :
          \E state_values \in StateValuesOf(view) :
             wizard_submit(state_values, created) /\ UNCHANGED auditVars
    \/ CloseModal /\ UNCHANGED auditVars

SpecLate == Init /\ [][NextLate]_vars

\* ------------------------------- the wizard with what was typed and created noted

\* the inputs typed into the wizard of token so far, with those of one more
\* event (the notes on an earlier wizard are dropped)
typed(token, state_values) ==
    token :> merge(IF token \in DOMAIN entered THEN entered[token] ELSE <<>>, state_values)

\* the tickets created for token so far, with one more when fd_post returned
created_for(token) == IF token \in DOMAIN tickets THEN tickets[token] ELSE 0

counted(token, created) ==
    IF created THEN (token :> created_for(token) + 1) @@ tickets ELSE tickets

NextSubmit ==
    \/ PickForm /\ UNCHANGED auditVars
    \/ \E env \in OpenEnvs : open_wizard_first_page(env) /\ UNCHANGED auditVars
    \/ \E nav \in NavsOf(view), env \in UpdateEnvs :
          \E new_state_values \in StateValuesOf(view) :
             /\ update_wizard(new_state_values, nav, env)
             /\ entered' = typed(view.token, new_state_values)
             /\ UNCHANGED tickets
    \/ \E created \in BOOLEAN :
          \E state_values \in StateValuesOf(view) :
             /\ wizard_submit(state_values, created)
             /\ entered' = typed(view.token, state_values)
             /\ tickets' = counted(view.token, created)
    \/ \E created \in BOOLEAN :
          /\ created_for(last.token) < MaxEvents
          /\ wizard_submit_redelivered(created)
          /\ tickets' = counted(last.token, created)
          /\ UNCHANGED entered
    \/ CloseModal /\ UNCHANGED auditVars

SpecSubmit == Init /\ [][NextSubmit]_vars

\* the answer sets contained in a (same keys kept with the same entries)
SubAnswers(a) == {[k \in D |-> a[k]] : D \in SUBSET DOMAIN a}

\* the FieldPage entries of a page list, in order
FieldEntries(pages) == SelectSeq(pages, IsFieldPage)

IsPrefix(p, q) == Len(p) <= Len(q) /\ \A i \in 1..Len(p) : p[i] = q[i]

\* C14: the FieldPage entries computed from any answer set contained in the
\* answers are a prefix of the FieldPage entries computed from the answers
C14_MonotonicGrowth ==
    Returned =>
        \A all \in {FieldEntries(result.pages)} :
            \A B \in SubAnswers(answers) :
                \A fewer \in {FieldEntries(compute_pages(meta, B))} : IsPrefix(fewer, all)

\* two answered top-level fields: with only the second answer kept the list
\* stops at the first field, with both it goes on
C14_Witness ==
    /\ Returned
    /\ Len(id_order(meta)) = 2
    /\ Len(FieldEntries(result.pages)) >= 2
    /\ \E B \in SubAnswers(answers) :
          /\ B # <<>>
          /\ Len(FieldEntries(compute_pages(meta, B))) = 1

\* the fields of nested-container type
Containers == {fid \in FieldIds : by_id(fid).type = "nested_field"}

\* C15: a returned page list has no page for a nested container's own id
C15_NoContainerPage ==
    Returned => \A i \in 1..Len(result.pages) :
                    IsFieldPage(result.pages[i]) => result.pages[i].id \notin Containers

\* C17: a compute_pages call returns a page list also when the form detail
\* fetch fails
C17_FormDetailFallback == result.called => ~result.raised

\* ------------------------------------------------- claims on the wizard session

\* names of the fields that are a FieldPage of a page list
FieldPageNames(pages) ==
    {f.name : f \in {fd_fields[i] : i \in {j \in 1..Len(fd_fields) :
                         \E k \in 1..Len(pages) : pages[k] = FieldPage(fd_fields[j].id)}}} \ {""}

\* the update_wizard call that ran last got past its prune step / its page store
PrunedByLast == last.op = "update" /\ last.stage \in {"pruned", "paged", "shown"}
PagedByLast == last.op = "update" /\ last.stage \in {"paged", "shown"}
SessionOfLast == WIZARD_SESSIONS[last.token]

CountryIs(values, c) == "country" \in DOMAIN values /\ extract_input(values["country"]) = StrV(c)

\* C3: on the country/region form the page list is [country, core, terminal]
\* with no answer and with country = US, and [country, region, core, terminal]
\* with country = FR; an update_wizard call that finds country changed away
\* from FR leaves no region answer in the session, and the list recomputed
\* from the session is [country, core, terminal] again.
C3_BranchSwitch ==
    meta = ScenarioMeta =>
        /\ compute_pages(meta, <<>>) = <<FieldPage(1), Core, Terminal>>
        /\ \A t \in Stored :
              LET values == WIZARD_SESSIONS[t].values
              IN /\ compute_pages(meta, values) =
                       IF CountryIs(values, "FR")
                       THEN <<FieldPage(1), FieldPage(2), Core, Terminal>>
                       ELSE <<FieldPage(1), Core, Terminal>>
                 /\ (PrunedByLast /\ last.token = t /\ ~CountryIs(values, "FR"))
                       => "region" \notin DOMAIN values

\* country was FR and region was stored; the event that set country back to US
\* dropped the region answer
C3_Witness ==
    /\ meta = ScenarioMeta
    /\ last.op = "update" /\ last.stage = "shown"
    /\ "region" \in last.dropped
    /\ "region" \in abandoned
    /\ CountryIs(SessionOfLast.values, "US")

\* C4: after an update_wizard call that completed its prune step, every key of
\* the session's answers is the name of a field that is a FieldPage of the page
\* list computed from those answers.
C4_PruningLaw ==
    PrunedByLast =>
        DOMAIN SessionOfLast.values
            \subseteq FieldPageNames(compute_pages(meta, SessionOfLast.values))

\* a prune that dropped a stored answer and kept another
C4_Witness ==
    /\ PrunedByLast
    /\ last.dropped \cap abandoned # {}
    /\ SessionOfLast.values # <<>>

\* C5: every custom-field key of the ticket built by wizard_submit names a field
\* that is a FieldPage of the page list computed from the answers handed to the
\* assembler.
C5_NoStaleAnswersInTicket ==
    last.op = "submit" =>
        DOMAIN last.ticket.custom_fields \subseteq FieldPageNames(compute_pages(meta, last.merged))

\* a ticket with custom fields, created after a branch was abandoned
C5_Witness ==
    /\ last.op = "submit" /\ last.created
    /\ abandoned # {}
    /\ last.ticket.custom_fields # <<>>

\* the page the stored index points at once clamped into the page list
\* recomputed from the pruned answers
PagesOfLast == compute_pages(meta, SessionOfLast.values)
ClampedOfLast ==
    IF last.page0 < 0 THEN 0
    ELSE IF last.page0 > Len(PagesOfLast) - 1 THEN Len(PagesOfLast) - 1
    ELSE last.page0
CurrentOfLast == PagesOfLast[ClampedOfLast + 1]
AnsweredOfLast ==
    \/ ~IsFieldPage(CurrentOfLast)
    \/ CurrentOfLast.id \notin FieldIds
    \/ selected_value_for(by_id(CurrentOfLast.id), SessionOfLast.values) # NoneV

\* C6: on direction next the page index moves, and then by exactly one, only
\* when the field at the current page has a non-null answer in the session
\* (Core and Terminal never block); with no answer the index stays.
C6_NextGuard ==
    (PagedByLast /\ last.nav = "next") =>
        /\ SessionOfLast.page # ClampedOfLast
              => AnsweredOfLast /\ SessionOfLast.page = ClampedOfLast + 1
        /\ ~AnsweredOfLast => SessionOfLast.page = ClampedOfLast
        /\ (AnsweredOfLast /\ ClampedOfLast < Len(PagesOfLast) - 1)
              => SessionOfLast.page = ClampedOfLast + 1

\* a next on a field page whose answer is empty: the index did not move
C6_Witness ==
    /\ PagedByLast /\ last.nav = "next" /\ last.stage = "shown"
    /\ IsFieldPage(CurrentOfLast)
    /\ ~AnsweredOfLast
    /\ SessionOfLast.page = last.page0

\* C7: after an update_wizard call that stored its page, the index is within
\* [0, len(pages) - 1] of the list recomputed from the pruned answers; prev
\* moves to max(clamped - 1, 0) and next never moves past the last index.
C7_PageIndexBounds ==
    PagedByLast =>
        /\ 0 <= SessionOfLast.page
        /\ SessionOfLast.page <= Len(PagesOfLast) - 1
        /\ last.nav = "prev" =>
              SessionOfLast.page = (IF ClampedOfLast = 0 THEN 0 ELSE ClampedOfLast - 1)
        /\ last.nav = "none" => SessionOfLast.page = ClampedOfLast

\* prev asked for while the stored index is already 0
C7_Witness ==
    /\ PagedByLast /\ last.nav = "prev"
    /\ last.page0 = 0
    /\ SessionOfLast.page = 0

\* C9: a session leaves WIZARD_SESSIONS only in a wizard_submit whose ticket
\* was created, that submit removes it, a token once handed out is not stored
\* again, a wizard_submit whose creation failed leaves the store unchanged, and
\* update_wizard removes no session.
C9_SessionExpiry ==
    [][/\ \A t \in DOMAIN WIZARD_SESSIONS :
             t \notin DOMAIN WIZARD_SESSIONS'
                => last'.op = "submit" /\ last'.created /\ last'.token = t
       /\ (last'.op = "submit" /\ last'.created) => last'.token \notin DOMAIN WIZARD_SESSIONS'
       /\ (last'.op = "submit" /\ ~last'.created) => WIZARD_SESSIONS' = WIZARD_SESSIONS
       /\ last'.op = "update" => DOMAIN WIZARD_SESSIONS' = DOMAIN WIZARD_SESSIONS
       /\ \A t \in DOMAIN WIZARD_SESSIONS' \ DOMAIN WIZARD_SESSIONS : t > issued]_vars

\* the session of a created ticket is gone
C9_Witness ==
    /\ last.op = "submit" /\ last.created
    /\ last.token \in 1..issued
    /\ last.token \notin DOMAIN WIZARD_SESSIONS

\* C10: a background computation that failed has sent the user a view: the
\* modal is a wizard page or a failure message, not the loading modal or the
\* page that was there before with no update sent.
C10_FailureIsShown ==
    (last.op \in {"open", "update"} /\ last.stage # "shown") =>
        /\ last.updated
        /\ view.kind \in {"wizard", "error"}

\* ------------------------------------- update_wizard, one thread per event

\* a thread of update_wizard: pc is the statement it executes next; pages,
\* valid_names and page are its local variables
Thread(pc, new_state_values, nav, valid, page) ==
    [pc |-> pc, new_state_values |-> new_state_values, nav |-> nav,
     valid_names |-> valid, page |-> page]

Started == DOMAIN threads
Done == {t \in Started : threads[t].pc = "done"}
TheToken == 1

InitConc ==
    /\ meta \in {ScenarioMeta, Meta(<<1, 3>>, {10, 11}, {10, 11})}
    /\ SECTIONS_CACHE = fill(<<>>, meta, Range(meta.order))
    /\ choices = DropdownIds
    /\ answers = <<>>
    /\ result = NoResult
    /\ WIZARD_SESSIONS = (TheToken :> Session(FormId, 0, <<>>))
    /\ view = build_wizard_page_modal(TheToken, 0, <<>>)
    /\ threads = <<>>
    /\ issued = 1
    /\ abandoned = {}
    /\ base = Session(FormId, 0, <<>>)
    /\ failures = 0
    /\ last = NoLast
    /\ _SCRAPED_SECTIONS = <<>>
    /\ _FIELDS_CACHE = NoFieldsCache
    /\ edits = 0
    /\ lookup = NoLookup
    /\ calls = <<>>
    /\ TicketIdle
    /\ AuditIdle

\* routes/core.py 124-146: a block_actions event of the wizard view starts a
\* thread on update_wizard and returns
block_actions(new_state_values, nav) ==
    /\ view.kind = "wizard"
    /\ Cardinality(Started \ Done) < MaxThreads
    /\ Cardinality(Started) < MaxEvents
    /\ threads' = (Cardinality(Started) + 1 :> Thread("merge", new_state_values, nav, {}, 0)) @@ threads
    /\ UNCHANGED <<meta, answers, result, WIZARD_SESSIONS, view, issued, abandoned, base, failures, last, memoVars, lookupVars, ticketVars, auditVars>>

\* wizard.py 252-256
uw_merge(t) ==
    /\ threads[t].pc = "merge"
    /\ WIZARD_SESSIONS' = [WIZARD_SESSIONS EXCEPT ![TheToken].values =
                               merge(@, threads[t].new_state_values)]
    /\ threads' = [threads EXCEPT ![t].pc = "pages"]
    /\ UNCHANGED <<meta, answers, result, view, issued, abandoned, base, failures, last, memoVars, lookupVars, ticketVars, auditVars>>

\* wizard.py 258-278: the page list of the answers as they are now, and the
\* names that have a page in it
uw_pages(t) ==
    /\ threads[t].pc = "pages"
    /\ threads' = [threads EXCEPT ![t].pc = "prune",
                                  ![t].valid_names =
                                      valid_names(compute_pages(meta, WIZARD_SESSIONS[TheToken].values))]
    /\ \E computed \in {after_compute_pages(meta, {WIZARD_SESSIONS[TheToken].values})} :
          SECTIONS_CACHE' = computed.memo /\ choices' = computed.choices
    /\ UNCHANGED <<meta, answers, result, WIZARD_SESSIONS, view, issued, abandoned, base, failures, last, lookupVars, ticketVars, auditVars>>

\* wizard.py 279
uw_prune(t) ==
    /\ threads[t].pc = "prune"
    /\ WIZARD_SESSIONS' = [WIZARD_SESSIONS EXCEPT ![TheToken].values =
                               prune(@, threads[t].valid_names)]
    /\ threads' = [threads EXCEPT ![t].pc = "navigate"]
    /\ UNCHANGED <<meta, answers, result, view, issued, abandoned, base, failures, last, memoVars, lookupVars, ticketVars, auditVars>>

\* wizard.py 280-296: recompute, clamp the stored index, apply the navigation
uw_navigate(t) ==
    /\ threads[t].pc = "navigate"
    /\ LET sess == WIZARD_SESSIONS[TheToken]
       IN threads' = [threads EXCEPT ![t].pc = "store",
                                     ![t].page = navigate(compute_pages(meta, sess.values), sess.page,
                                                          threads[t].nav, sess.values)]
    /\ \E computed \in {after_compute_pages(meta, {WIZARD_SESSIONS[TheToken].values})} :
          SECTIONS_CACHE' = computed.memo /\ choices' = computed.choices
    /\ UNCHANGED <<meta, answers, result, WIZARD_SESSIONS, view, issued, abandoned, base, failures, last, lookupVars, ticketVars, auditVars>>

\* wizard.py 298
uw_store(t) ==
    /\ threads[t].pc = "store"
    /\ WIZARD_SESSIONS' = [WIZARD_SESSIONS EXCEPT ![TheToken].page = threads[t].page]
    /\ threads' = [threads EXCEPT ![t].pc = "send"]
    /\ UNCHANGED <<meta, answers, result, view, issued, abandoned, base, failures, last, memoVars, lookupVars, ticketVars, auditVars>>

\* wizard.py 300-309: build the view and send it (again without the hash
\* after a hash_conflict)
uw_send(t) ==
    /\ threads[t].pc = "send"
    /\ view' = build_wizard_page_modal(TheToken, threads[t].page, WIZARD_SESSIONS[TheToken].values)
    /\ threads' = [threads EXCEPT ![t].pc = "done"]
    /\ \E computed \in {after_compute_pages(meta, {WIZARD_SESSIONS[TheToken].values})} :
          SECTIONS_CACHE' = computed.memo /\ choices' = computed.choices
    /\ UNCHANGED <<meta, answers, result, WIZARD_SESSIONS, issued, abandoned, base, failures, last, lookupVars, ticketVars, auditVars>>

NextConc ==
    \/ \E nav \in NavsOf(view) :
          \E new_state_values \in StateValuesOf(view) : block_actions(new_state_values, nav)
    \/ \E t \in Started : uw_merge(t)
    \/ \E t \in Started : uw_pages(t)
    \/ \E t \in Started : uw_prune(t)
    \/ \E t \in Started : uw_navigate(t)
    \/ \E t \in Started : uw_store(t)
    \/ \E t \in Started : uw_send(t)

SpecConc == InitConc /\ [][NextConc]_vars

\* the session after the events of threads t1 then t2 were handled one after
\* the other
HandledInOrder(t1, t2) ==
    LET first == session_after_update(base, threads[t1].new_state_values, threads[t1].nav, "shown")
    IN session_after_update(first, threads[t2].new_state_values, threads[t2].nav, "shown")

\* C8: when the threads of two events on one token have finished, the session
\* (answers and page index) is the one that handling the two events one after
\* the other, in one of the two orders, would have left.
C8_PerTokenAtomicity ==
    (Started = {1, 2} /\ Done = {1, 2}) =>
        WIZARD_SESSIONS[TheToken] \in {HandledInOrder(1, 2), HandledInOrder(2, 1)}

\* C16: a next event on the page of a nested container that is not the last
\* page moves the page index on by one
C16_NestedNeverBlocks ==
    (/\ PagedByLast /\ last.nav = "next"
     /\ IsFieldPage(CurrentOfLast)
     /\ CurrentOfLast.id \in Containers
     /\ ClampedOfLast < Len(PagesOfLast) - 1)
        => SessionOfLast.page = ClampedOfLast + 1

\* C11: when update_wizard fails because the token is unknown or the session's
\* form is no longer among the ticket forms, the session store is left as it was
C11_StoreUnchangedOnFatalError ==
    [][(last'.op = "update" /\ last'.stage \in {"expired", "merged"})
        => WIZARD_SESSIONS' = WIZARD_SESSIONS]_vars

\* C12: a views.update answered hash_conflict is followed by exactly one more
\* call, without the hash and with the same view; any other answer to the
\* first call is followed by no further call
C12_RetryOnceOnHashConflict ==
    last.sends # <<>> =>
        /\ last.sends[1].hash
        /\ IF last.sends[1].answer = "hash_conflict"
           THEN /\ Len(last.sends) = 2
                /\ ~last.sends[2].hash
                /\ last.sends[2].view = last.sends[1].view
           ELSE Len(last.sends) = 1
        /\ last.updated = (last.sends[Len(last.sends)].answer = "ok")

C12_Witness ==
    /\ last.op = "update"
    /\ Len(last.sends) = 2
    /\ last.sends[2].answer = "error"
    /\ ~last.updated

\* ------------------------------------------- section lookups and the caches

\* Field ids as the lookups receive them: an integer, or a string. A string
\* of digits "n" is written StrIdBase + n, and NonNumericId is a string that
\* int() cannot parse.
StrIdBase == 100
NonNumericId == 200
IsNumeric(field_id) == field_id < NonNumericId

\* int(field_id) of freshdesk.py 582 and 585, for an id it can parse
int_of(field_id) == IF field_id >= StrIdBase THEN field_id - StrIdBase ELSE field_id

\* the ids looked up: a field with sections, an id neither the API nor the
\* portal knows, the same field as a string, and a string that is no number
LookupIds == {1, UnknownId, StrIdBase + 1, NonNumericId}

\* how the admin sections endpoint answers: a payload, an empty payload, a
\* 400/404/422 status, or no answer at all (the request raises)
ApiAnswers == {"ok", "empty", "4xx", "neterr"}

\* what the endpoint holds for the field (the URL carries the id as text)
upstream_sections(m, field_id) ==
    IF IsNumeric(field_id) THEN get_sections(m, int_of(field_id)) ELSE <<>>

\* the answers the endpoint can give for the field: a payload when sections
\* are configured, an empty one when none are, an error at any time
AnswersFor(m, field_id) ==
    {"4xx", "neterr"}
      \cup (IF ~IsNumeric(field_id) THEN {}
            ELSE IF upstream_sections(m, field_id) # <<>> THEN {"ok"} ELSE {"empty"})

\* _scrape_portal_fields (freshdesk.py 49-489): with the portal reachable,
\* _SCRAPED_SECTIONS gets an entry for every parent field that has a section
\* (460); an unreachable portal returns early (62-64)
_scrape_portal_fields(m, scraped, portal_ok) ==
    IF ~portal_ok THEN scraped
    ELSE LET parents == {AllSections[i].parent : i \in {j \in 1..Len(AllSections) : AllSections[j].id \in m.secs}}
         IN [fid \in DOMAIN scraped \cup parents |->
                IF fid \in parents THEN get_sections(m, fid) ELSE scraped[fid]]

LookupResult(raised, value, scraped, ran) ==
    [raised |-> raised, value |-> value, scraped |-> scraped, ran |-> ran]

\* get_sections (freshdesk.py 566-586): the payload of an ok answer; otherwise
\* the scraped entry of int(field_id), after a scrape when there is none
get_sections_call(m, field_id, answer, scraped, portal_ok) ==
    IF answer = "ok" THEN LookupResult(FALSE, upstream_sections(m, field_id), scraped, FALSE)
    ELSE IF answer = "empty" THEN LookupResult(FALSE, <<>>, scraped, FALSE)
    ELSE IF ~IsNumeric(field_id) THEN LookupResult(TRUE, <<>>, scraped, FALSE)
    ELSE IF int_of(field_id) \in DOMAIN scraped
         THEN LookupResult(FALSE, scraped[int_of(field_id)], scraped, FALSE)
    ELSE LET again == _scrape_portal_fields(m, scraped, portal_ok)
         IN LookupResult(FALSE,
                         IF int_of(field_id) \in DOMAIN again THEN again[int_of(field_id)] ELSE <<>>,
                         again, TRUE)

\* the record of a lookup made on its own
Looked(op, field_id, answer, r, asked) ==
    [op |-> op, id |-> field_id, answered |-> answer \in {"ok", "empty"},
     raised |-> r.raised, value |-> r.value,
     asked |-> asked, scraped |-> r.ran,
     stale |-> lookup.stale \ {field_id}, was_stale |-> field_id \in lookup.stale,
     missed |-> IF asked /\ ~r.raised /\ r.value = <<>> /\ answer \in {"4xx", "neterr"}
                THEN lookup.missed \cup {field_id} ELSE lookup.missed,
     repeated |-> field_id \in lookup.missed, n |-> lookup.n + 1]

\* the forms and answers of the scenarios on the caches
MemoMetas ==
    {[Meta(<<1>>, S, {10, 11}) EXCEPT !.detail_choices = D] :
        S \in SUBSET {10, 11}, D \in SUBSET DropdownIds}

MemoAnswers ==
    {<<>>, [country |-> Entry("static_select", "FR", 0)],
     [country |-> Entry("plain_text_input", "US", 0)]}

\* a fresh process: empty memo, nothing scraped, no field list loaded
InitMemo ==
    /\ meta \in MemoMetas
    /\ SECTIONS_CACHE = <<>>
    /\ choices \in SUBSET DropdownIds
    /\ answers \in MemoAnswers
    /\ result = NoResult
    /\ WIZARD_SESSIONS = <<>>
    /\ view = NoView
    /\ threads = <<>>
    /\ issued = 0
    /\ abandoned = {}
    /\ base = <<>>
    /\ failures = 0
    /\ last = NoLast
    /\ _SCRAPED_SECTIONS = <<>>
    /\ _FIELDS_CACHE = NoFieldsCache
    /\ edits = 0
    /\ lookup = NoLookup
    /\ calls = <<>>
    /\ TicketIdle
    /\ AuditIdle

InitLookups ==
    /\ InitMemo
    /\ meta.detail_choices = DropdownIds
    /\ choices = DropdownIds
    /\ answers = <<>>

\* freshdesk.py 566-586: a call of get_sections
GetSections(field_id, answer, portal_ok) ==
    /\ lookup.n < MaxLookups
    /\ answer \in AnswersFor(meta, field_id)
    /\ LET r == get_sections_call(meta, field_id, answer, _SCRAPED_SECTIONS, portal_ok)
       IN /\ lookup' = Looked("get_sections", field_id, answer, r, TRUE)
          /\ _SCRAPED_SECTIONS' = r.scraped
    /\ UNCHANGED <<meta, answers, result, wizardVars, memoVars, _FIELDS_CACHE, edits, calls, ticketVars, auditVars>>

\* branching.py 13-18: a call of get_sections_cached
GetSectionsCached(field_id, answer, portal_ok) ==
    /\ lookup.n < MaxLookups
    /\ answer \in AnswersFor(meta, field_id)
    /\ IF field_id \in DOMAIN SECTIONS_CACHE
       THEN /\ lookup' = Looked("get_sections_cached", field_id, answer,
                                LookupResult(FALSE, SECTIONS_CACHE[field_id], _SCRAPED_SECTIONS, FALSE),
                                FALSE)
            /\ UNCHANGED <<SECTIONS_CACHE, _SCRAPED_SECTIONS>>
       ELSE LET r == get_sections_call(meta, field_id, answer, _SCRAPED_SECTIONS, portal_ok)
            IN /\ lookup' = Looked("get_sections_cached", field_id, answer, r, TRUE)
               /\ _SCRAPED_SECTIONS' = r.scraped
               /\ SECTIONS_CACHE' = IF r.raised THEN SECTIONS_CACHE
                                    ELSE (field_id :> r.value) @@ SECTIONS_CACHE
    /\ UNCHANGED <<meta, answers, result, wizardVars, choices, _FIELDS_CACHE, edits, calls, ticketVars, auditVars>>

\* freshdesk.py 528-537: get_ticket_fields_cached; an expired (or never
\* loaded) list is fetched again, and the new descriptors carry the choices
\* the source delivers
get_ticket_fields_cached(expired, delivered) ==
    /\ IF expired \/ ~_FIELDS_CACHE.loaded
       THEN /\ _FIELDS_CACHE' = [loaded |-> TRUE]
            /\ choices' = delivered
            /\ lookup' = [lookup EXCEPT !.stale = DOMAIN SECTIONS_CACHE]
       ELSE UNCHANGED <<_FIELDS_CACHE, choices, lookup>>
    /\ UNCHANGED <<meta, answers, result, wizardVars, SECTIONS_CACHE, _SCRAPED_SECTIONS, edits, calls, ticketVars, auditVars>>

\* an administrator changes the sections configured in Freshdesk
AdminEdit(S) ==
    /\ edits < MaxEdits
    /\ S # meta.secs
    /\ meta' = [meta EXCEPT !.secs = S]
    /\ edits' = edits + 1
    /\ UNCHANGED <<answers, result, wizardVars, memoVars, _SCRAPED_SECTIONS, _FIELDS_CACHE, lookup, calls, ticketVars, auditVars>>

\* one more compute_pages call with the same form, field list and answers
CallComputePages(detail_ok) ==
    /\ Len(calls) < MaxCalls
    /\ \E after \in {after_compute_pages(meta, IF detail_ok THEN {answers} ELSE {})} :
         /\ calls' = Append(calls, [values |-> answers,
                                    returned |-> call_compute_pages(meta, answers, detail_ok),
                                    filled |-> DOMAIN after.memo \ DOMAIN SECTIONS_CACHE,
                                    fetched |-> after.choices \ choices,
                                    edits |-> edits])
         /\ SECTIONS_CACHE' = after.memo
         /\ choices' = after.choices
    /\ UNCHANGED <<meta, answers, result, wizardVars, _SCRAPED_SECTIONS, _FIELDS_CACHE, edits, lookup, ticketVars, auditVars>>

NextMemo ==
    \/ \E detail_ok \in BOOLEAN : CallComputePages(detail_ok)
    \/ \E expired \in BOOLEAN, delivered \in SUBSET DropdownIds :
          get_ticket_fields_cached(expired, delivered)
    \/ \E S \in SUBSET {10, 11} : AdminEdit(S)

SpecMemo == InitMemo /\ [][NextMemo]_vars

NextLookups ==
    \/ \E field_id \in LookupIds, answer \in ApiAnswers, portal_ok \in BOOLEAN :
          GetSections(field_id, answer, portal_ok)
    \/ \E field_id \in LookupIds, answer \in ApiAnswers, portal_ok \in BOOLEAN :
          GetSectionsCached(field_id, answer, portal_ok)
    \/ \E expired \in BOOLEAN, delivered \in SUBSET DropdownIds :
          get_ticket_fields_cached(expired, delivered)
    \/ \E S \in SUBSET {10, 11} : AdminEdit(S)

SpecLookups == InitLookups /\ [][NextLookups]_vars

\* C13: the compute_pages calls made with the same form, field list and
\* answers that returned, returned equal page lists
C13_Idempotent ==
    \A i, j \in 1..Len(calls) :
        (~calls[i].returned.raised /\ ~calls[j].returned.raised)
            => calls[i].returned.pages = calls[j].returned.pages

\* the first call filled the memo and added choices to a dropdown descriptor,
\* and a second call returned the two-field list again
C13_Witness ==
    /\ Len(calls) = 2
    /\ ~calls[1].returned.raised /\ ~calls[2].returned.raised
    /\ calls[1].filled # {} /\ calls[1].fetched # {}
    /\ calls[2].filled = {}
    /\ Len(calls[2].returned.pages) = 4

\* C18: a section lookup raises nothing
C18_LookupNeverRaises == lookup.op # "none" => ~lookup.raised

\* C19: a get_sections_cached call for an id whose memo entry is older than
\* the last fetch of the field list asks the upstream source
C19_MemoExpiresWithFields ==
    (lookup.op = "get_sections_cached" /\ lookup.was_stale) => lookup.asked

\* C20: a get_sections call for an id an earlier call found nothing for,
\* and the API has nothing for again, returns [] without running the scrape
C20_MissRemembered ==
    (/\ lookup.op = "get_sections"
     /\ lookup.repeated
     /\ ~lookup.answered
     /\ ~lookup.raised)
        => ~lookup.scraped /\ lookup.value = <<>>

\* ------------------------------------- proxy values and the ticket payload

\* mapping.py 31: the longest value handed to Slack as it is
PROXY_LIMIT == 150
\* mapping.py 33: len("hash:") and the width of a SHA-1 hexdigest
TAG_PREFIX_LEN == 5
HEXDIGEST_LEN == 40

\* hashlib.sha1(raw.encode("utf-8")).hexdigest(): a digest of the whole string,
\* different strings of the model having different digests
sha1(raw) == "sha1(" \o raw.pre \o raw.rest \o ")"

\* "hash:" + digest
Tag(digest) == Text("hash:", digest, TAG_PREFIX_LEN + HEXDIGEST_LEN, TAG_PREFIX_LEN + HEXDIGEST_LEN)

\* val.startswith("hash:") and val[5:]
startswith_hash(val) == val.pre = "hash:"
want_of(val) == val.rest

\* the strings of the model: two short choices, 150 and 151 ASCII characters,
\* 100 two-byte characters, two long choices (one no longer offered), and two
\* short strings that start with "hash:" (the second spells a digest)
ShortFR == Text("", "FR", 2, 2)
ShortUS == Text("", "US", 2, 2)
Ascii150 == Text("", "a*150", 150, 150)
Ascii151 == Text("", "a*151", 151, 151)
Accented100 == Text("", "e-acute*100", 100, 200)
Long200 == Text("", "L*200", 200, 200)
Gone300 == Text("", "G*300", 300, 300)
TypedHash == Text("hash:", "tag", 8, 8)
TypedDigest == Tag(sha1(Long200))

Texts == {ShortFR, ShortUS, Ascii150, Ascii151, Accented100, Long200, Gone300, TypedHash, TypedDigest}

\* mapping.py 29-33
proxy_value_if_needed(raw) ==
    IF raw.len <= PROXY_LIMIT THEN raw ELSE Tag(sha1(raw))

\* fd_get("/api/v2/admin/ticket_fields") as the resolver reads it: the field
\* names, and the raw choice values of each in list order (iter_choice_items)
ChoiceLists ==
    [country |-> <<ShortFR, Ascii151, Long200, Accented100>>,
     region |-> <<>>]

ProxyFields == {"country", "region", "app"}

\* how Freshdesk answers the resolver: the field list request fails, or it
\* delivers the fields with their choices (inline), or without them and the
\* field detail delivers them (detail) or fails (no_detail)
FieldEnvs == {"raise", "inline", "detail", "no_detail"}

\* ticket.py 25-27: ensure_choices(target), get_field_choices, iter_choice_items
items_of(field_name, env) ==
    IF env = "no_detail" THEN <<>> ELSE ChoiceLists[field_name]

Resolved(r, o, f, w, c) == [raised |-> r, out |-> o, fetched |-> f, warned |-> w, candidates |-> c]

\* ticket.py 13-36
resolve_proxy_value(field_name, val, env) ==
    IF ~startswith_hash(val) THEN Resolved(FALSE, val, FALSE, FALSE, <<>>)
    ELSE IF env = "raise" THEN Resolved(TRUE, NoText, TRUE, FALSE, <<>>)
    ELSE IF field_name \notin DOMAIN ChoiceLists THEN Resolved(FALSE, val, TRUE, TRUE, <<>>)
    ELSE LET items == items_of(field_name, env)
             hits == {i \in 1..Len(items) : sha1(items[i]) = want_of(val)}
         IN IF hits # {}
            THEN Resolved(FALSE, items[CHOOSE i \in hits : \A j \in hits : i <= j], TRUE, FALSE, items)
            ELSE Resolved(FALSE, val, TRUE, TRUE, items)

\* mapping.py 79-87 then ticket.py 13-36: the option value of the choice raw, or
\* the text raw typed into an input, is handed to the resolver
ProxyValueIfNeeded ==
    \E raw \in Texts :
        /\ proxy' = [NoProxy EXCEPT !.op = "encode", !.raw = raw, !.value = raw,
                                    !.out = proxy_value_if_needed(raw)]
        /\ UNCHANGED <<meta, answers, result, wizardVars, memoVars, lookupVars, _EMAIL_CACHE, email, auditVars>>

ResolveProxyValue ==
    \E raw \in Texts, field_name \in ProxyFields, env \in FieldEnvs :
        \E r \in {resolve_proxy_value(field_name, proxy_value_if_needed(raw), env)} :
            /\ proxy' = [NoProxy EXCEPT !.op = "resolve", !.field = field_name, !.raw = raw,
                                        !.value = proxy_value_if_needed(raw),
                                        !.out = r.out, !.raised = r.raised,
                                        !.fetched = r.fetched, !.warned = r.warned,
                                        !.candidates = r.candidates]
            /\ UNCHANGED <<meta, answers, result, wizardVars, memoVars, lookupVars, _EMAIL_CACHE, email, auditVars>>

\* config.py 54-66: form name -> ticket type
FORM_NAME_TO_TYPE ==
    [n \in {"IT Equipment & Facility Support Form", "Security Incident"} |->
        IF n = "Security Incident" THEN "Security Incident" ELSE "IT Equipment Support Form"]

\* how get_form_detail answers the ticket builder: a form whose name is in the
\* table, a form whose name is not, an exception, something that is not a dict,
\* a form without a name
FormEnvs == {"table", "plain", "raise", "not_dict", "no_name"}

\* form.get("name"), "" standing for None
form_name(form_env) ==
    CASE form_env = "table" -> "IT Equipment & Facility Support Form"
      [] form_env = "plain" -> "Onboarding"
      [] OTHER -> ""

\* FORM_NAME_TO_TYPE.get(name, name)
type_of_form(name) == IF name \in DOMAIN FORM_NAME_TO_TYPE THEN FORM_NAME_TO_TYPE[name] ELSE name

\* the form's type even when the modal carries a type answer
type_from_form_first(type_answer, has_form, form_env) ==
    IF has_form /\ form_env \in {"table", "plain"} THEN type_of_form(form_name(form_env))
    ELSE type_answer

\* ticket.py 50-51, 58-65, 81-82: the ticket's type, "" when the payload has no
\* type key
type_field_of(type_answer, has_form, form_env) ==
    IF type_answer # "" THEN type_answer
    ELSE IF ~has_form THEN ""
    ELSE IF form_env \in {"raise", "not_dict"} THEN ""
    ELSE type_of_form(form_name(form_env))

\* the answers the type selector can carry ("" is no selection) and the custom
\* answers of the modal: none, a short choice, the tag of a current choice, the
\* tag of a choice that is gone
TypeAnswers == {"", "Incident"}
CustomAnswers == {ShortFR, proxy_value_if_needed(Long200), proxy_value_if_needed(Gone300)}

\* ticket.py 38-87, for a modal with a type selector and at most one other block
ModalValuesToFdTicket ==
    \E type_answer \in TypeAnswers, has_form \in BOOLEAN, form_env \in FormEnvs,
       block_id \in ProxyFields \cup {""}, env \in FieldEnvs :
        \E val \in (IF block_id = "" THEN {NoText} ELSE CustomAnswers) :
            \E r \in {IF block_id = "" THEN Resolved(FALSE, NoText, FALSE, FALSE, <<>>)
                      ELSE resolve_proxy_value(block_id, val, env)} :
                /\ proxy' = [NoProxy EXCEPT !.op = "ticket", !.field = block_id, !.value = val,
                                            !.out = r.out, !.raised = r.raised,
                                            !.fetched = r.fetched, !.warned = r.warned,
                                            !.candidates = r.candidates,
                                            !.type_answer = type_answer, !.form = form_env,
                                            !.has_form = has_form,
                                            !.type = IF r.raised THEN ""
                                                     ELSE type_field_of(type_answer, has_form, form_env)]
                /\ UNCHANGED <<meta, answers, result, wizardVars, memoVars, lookupVars, _EMAIL_CACHE, email, auditVars>>

InitTicket ==
    /\ meta = ScenarioMeta
    /\ answers = <<>>
    /\ result = NoResult
    /\ WIZARD_SESSIONS = <<>>
    /\ view = NoView
    /\ threads = <<>>
    /\ issued = 0
    /\ abandoned = {}
    /\ base = <<>>
    /\ failures = 0
    /\ last = NoLast
    /\ SECTIONS_CACHE = <<>>
    /\ choices = {}
    /\ _SCRAPED_SECTIONS = <<>>
    /\ _FIELDS_CACHE = NoFieldsCache
    /\ edits = 0
    /\ lookup = NoLookup
    /\ calls = <<>>
    /\ TicketIdle
    /\ AuditIdle

NextTicket ==
    \/ ProxyValueIfNeeded
    \/ ResolveProxyValue
    \/ ModalValuesToFdTicket

SpecTicket == InitTicket /\ [][NextTicket]_vars

\* C21: proxy_value_if_needed(raw) returns raw unchanged exactly when the UTF-8
\* encoded length of raw is at most 150 bytes, and otherwise "hash:" followed by
\* the SHA-1 hex digest of raw, 45 characters in all.
C21_ProxyThreshold ==
    proxy.op = "encode" =>
        /\ (proxy.out = proxy.raw) <=> (proxy.raw.utf8 <= PROXY_LIMIT)
        /\ proxy.raw.utf8 > PROXY_LIMIT =>
              /\ proxy.out = Tag(sha1(proxy.raw))
              /\ proxy.out.len = 45

\* C22: whenever the resolver returns, a string of at most 150 bytes comes back
\* from resolve_proxy_value(field, proxy_value_if_needed(s)) as itself, and so
\* does a longer string that is among the candidates of the field's choice list.
C22_ProxyRoundTrip ==
    (proxy.op = "resolve" /\ ~proxy.raised) =>
        /\ proxy.raw.utf8 <= PROXY_LIMIT => proxy.out = proxy.raw
        /\ (proxy.raw.utf8 > PROXY_LIMIT /\ proxy.raw \in Range(proxy.candidates)) =>
              proxy.out = proxy.raw

\* C23: resolve_proxy_value never raises for a tagged value, on its own or inside
\* the ticket builder, and when no candidate matches the digest (field unknown,
\* choice gone, fetch failed) the tag itself comes back after a warning.
C23_ResolveNeverRaises ==
    (proxy.op \in {"resolve", "ticket"} /\ startswith_hash(proxy.value)) =>
        /\ ~proxy.raised
        /\ (\A i \in 1..Len(proxy.candidates) : sha1(proxy.candidates[i]) # want_of(proxy.value)) =>
              /\ proxy.out = proxy.value
              /\ proxy.warned

\* C24: a ticket the builder returns has the type-selector answer as its type
\* when there is one; otherwise, for a chosen form, the category table entry of
\* the form's name, or the name itself when the table has no entry; and the
\* builder does not raise when the form name cannot be obtained (a call that
\* raises is one that fetched the field list for a tagged answer).
C24_TicketType ==
    proxy.op = "ticket" =>
        /\ ~proxy.raised =>
              proxy.type =
                 IF proxy.type_answer # "" THEN proxy.type_answer
                 ELSE IF proxy.has_form /\ proxy.form = "table" THEN "IT Equipment Support Form"
                 ELSE IF proxy.has_form /\ proxy.form = "plain" THEN "Onboarding"
                 ELSE ""
        /\ proxy.raised => (proxy.fetched /\ startswith_hash(proxy.value))
        /\ (proxy.form \in {"raise", "not_dict", "no_name"} /\ ~startswith_hash(proxy.value)) =>
              ~proxy.raised

\* a ticket without a type answer, for a form whose name the table maps
C24_Witness ==
    /\ proxy.op = "ticket"
    /\ ~proxy.raised
    /\ proxy.type_answer = ""
    /\ proxy.has_form
    /\ proxy.form = "table"
    /\ proxy.type = "IT Equipment Support Form"

\* ------------------------------------------------------- get_user_email

Users == {"U1", "U2", "U3"}

\* what Slack answers to users.info and to users.profile.get: a profile with an
\* email, a profile without one, an error (slack_api raises); users.profile.get
\* may also carry the address in a custom field whose label contains "email"
InfoAnswers == {"email", "no_email", "error"}
ProfileAnswers == {"email", "custom_field", "no_email", "error"}

\* the address each source delivers, "" for none
info_email(info) == IF info = "email" THEN "info@corp" ELSE ""
profile_email(profile) ==
    CASE profile = "email" -> "profile@corp"
      [] profile = "custom_field" -> "contact@corp"
      [] OTHER -> ""

\* slack.py 54, 63, 73: _EMAIL_CACHE[user_id] = email
remember(cache, user_id, address) ==
    [u \in DOMAIN cache \cup {user_id} |-> IF u = user_id THEN address ELSE cache[u]]

\* a cache that is never consulted
cache_never_hits(cache, user_id) == FALSE

\* slack.py 46-47: cached = _EMAIL_CACHE.get(user_id); if cached
cache_hit(cache, user_id) == user_id \in DOMAIN cache /\ cache[user_id] # ""

Emailed(r, m, c) == [returned |-> r, methods |-> m, cache |-> c]

\* slack.py 36-78
get_user_email(cache, user_id, info, profile) ==
    IF cache_hit(cache, user_id) THEN Emailed(cache[user_id], <<>>, cache)
    ELSE IF info_email(info) # ""
    THEN Emailed(info_email(info), <<"users.info">>, remember(cache, user_id, info_email(info)))
    ELSE IF profile_email(profile) # ""
    THEN Emailed(profile_email(profile), <<"users.info", "users.profile.get">>,
                 remember(cache, user_id, profile_email(profile)))
    ELSE Emailed("", <<"users.info", "users.profile.get">>, cache)

GetUserEmail ==
    \E user_id \in Users, info \in InfoAnswers, profile \in ProfileAnswers :
        \E r \in {get_user_email(_EMAIL_CACHE, user_id, info, profile)} :
            /\ _EMAIL_CACHE' = r.cache
            /\ email' = [op |-> "get", user |-> user_id,
                         cached |-> user_id \in DOMAIN _EMAIL_CACHE,
                         methods |-> r.methods, returned |-> r.returned]
            /\ UNCHANGED <<meta, answers, result, wizardVars, memoVars, lookupVars, proxy, auditVars>>

NextEmail == GetUserEmail

SpecEmail == InitTicket /\ [][NextEmail]_vars

\* C25: a get_user_email call for a user whose address is cached returns it
\* without calling Slack; for any other user (never looked up, or looked up
\* without finding an address, or after a failure) it calls users.info first and
\* users.profile.get second, returns without raising, and stores the address
\* only when it found a non-empty one.
C25_EmailCaching ==
    [][email'.op = "get" =>
         LET u == email'.user
         IN /\ u \in DOMAIN _EMAIL_CACHE =>
                  /\ email'.methods = <<>>
                  /\ email'.returned = _EMAIL_CACHE[u]
                  /\ _EMAIL_CACHE' = _EMAIL_CACHE
            /\ u \notin DOMAIN _EMAIL_CACHE =>
                  /\ email'.methods \in {<<"users.info">>, <<"users.info", "users.profile.get">>}
                  /\ email'.returned # "" => _EMAIL_CACHE' = remember(_EMAIL_CACHE, u, email'.returned)
                  /\ email'.returned = "" => _EMAIL_CACHE' = _EMAIL_CACHE
            /\ \A v \in DOMAIN _EMAIL_CACHE' : _EMAIL_CACHE'[v] # ""
            /\ (email.op = "get" /\ email.user = u /\ email.returned = "") =>
                  email'.methods # <<>>
    ]_vars

\* a call answered from the cache, after calls that found nothing for another user
C25_Witness ==
    /\ email.op = "get"
    /\ email.cached
    /\ email.methods = <<>>
    /\ email.returned = "profile@corp"
    /\ DOMAIN _EMAIL_CACHE # Users

\* ------------------------------------- claims on the order of the pages

\* the positions of the FieldPages of the returned list
FieldIndexes == {i \in 1..Len(result.pages) : IsFieldPage(result.pages[i])}

Paged(fid) == \E i \in FieldIndexes : result.pages[i].id = fid

IndexOf(fid) == CHOOSE i \in FieldIndexes : result.pages[i].id = fid

\* a question that has no answer in the answer set (a container has none to give)
Unanswered(fid) ==
    fid \notin Containers /\ selected_value_for(by_id(fid), answers) = NoneV

\* the sections the traversal expanded, and those among them attached to fid
ExpandedSections == {sec \in Range(AllSections) : sec.id \in result.expanded}
ExpandedOf(fid) == SelectSeq(get_sections_cached(meta, fid), LAMBDA sec : sec.id \in result.expanded)

\* the children of the expanded sections of fid, for every id at once, and
\* everything below a set of fields through expanded sections
ActiveChildren(fid) == UNION {Range(sec.fields) : sec \in Range(ExpandedOf(fid))}

ChildMap ==
    CHOOSE kids \in
        {[fid \in FieldIds \cup {UnknownId} |->
             UNION {Range(sec.fields) : sec \in {x \in expanded : x.parent = fid}}] :
           expanded \in {ExpandedSections}} : TRUE

RECURSIVE Below(_, _)
Below(kids, S) ==
    LET more == S \cup UNION {kids[f] : f \in S}
    IN IF more = S THEN S ELSE Below(kids, more)

ActiveDescendants(S) == Below(ChildMap, S)

\* C26: in a returned page list a FieldPage of a non-container field without an
\* answer is the last FieldPage, directly followed by Core and Terminal; so there
\* is at most one, and no page of a later top-level field, sibling or child
\* follows it.
C26_IncrementalGeneration ==
    Returned =>
        \A i \in FieldIndexes :
            Unanswered(result.pages[i].id) =>
                /\ i + 2 = Len(result.pages)
                /\ result.pages[i + 1] = Core
                /\ result.pages[i + 2] = Terminal

\* a child of an expanded section is the unanswered question, and a top-level
\* field that renders has no page
C26_Witness ==
    /\ Returned
    /\ \E i \in FieldIndexes :
          /\ i > 1
          /\ Unanswered(result.pages[i].id)
          /\ result.pages[i].id \in ActiveChildren(result.pages[i - 1].id)
    /\ \E t \in Range(id_order(meta)) : renders(meta, t) /\ ~Paged(t)

\* a sequence without its repeated entries, the first occurrence of each kept
RECURSIVE FirstOccurrences(_)
FirstOccurrences(q) ==
    IF q = <<>> THEN <<>>
    ELSE LET r == FirstOccurrences(SubSeq(q, 1, Len(q) - 1))
         IN IF q[Len(q)] \in Range(r) THEN r ELSE Append(r, q[Len(q)])

\* C27: every field id has at most one page; the pages are the fields that
\* render, in the order in which the traversal first came to each of them (top
\* level or section child); an id without a descriptor has no page and the
\* traversal goes on with the child listed after it.
C27_SingleExpansion ==
    Returned =>
        LET fe == FieldEntries(result.pages)
        IN /\ \A i, j \in 1..Len(fe) : fe[i] = fe[j] => i = j
           /\ [i \in 1..Len(fe) |-> fe[i].id]
                 = SelectSeq(FirstOccurrences(result.refs), LAMBDA fid : renders(meta, fid))
           /\ \A k \in 1..Len(result.refs) :
                 result.refs[k] \notin FieldIds =>
                    /\ ~Paged(result.refs[k])
                    /\ \E sec \in ExpandedSections : \E j \in 1..Len(sec.fields) :
                          /\ sec.fields[j] = result.refs[k]
                          /\ j < Len(sec.fields) =>
                                (k < Len(result.refs) /\ result.refs[k + 1] = sec.fields[j + 1])

\* a field that has its page is met a second time, as the child of an expanded
\* section, and further pages follow
C27_Witness ==
    /\ Returned
    /\ \E k, l \in 1..Len(result.refs) :
          /\ k < l
          /\ result.refs[k] = result.refs[l]
          /\ Paged(result.refs[k])
          /\ result.refs[l] \in UNION {Range(sec.fields) : sec \in ExpandedSections}
          /\ IndexOf(result.refs[k]) < Len(FieldEntries(result.pages))

\* the children referred to before child j of section number n of fid: those of
\* the expanded sections listed before it and the earlier children of its own
EarlierChildren(fid, n, j) ==
    UNION {Range(ExpandedOf(fid)[i].fields) : i \in 1..(n - 1)}
       \cup {ExpandedOf(fid)[n].fields[i] : i \in 1..(j - 1)}

\* C28: below every page p with expanded sections the list is in depth-first
\* pre-order: the page after p is a child of p, the pages from p to any later
\* page below p are all below p (so they precede every later top-level field),
\* two children of a section that follow p keep their declared order unless the
\* later one was reached first below an earlier child, top-level fields keep the
\* form's order likewise, every child that renders has its page unless the
\* traversal was blocked, and nothing follows a blocked page.
C28_DepthFirstPreOrder ==
    Returned =>
      \A kids \in {ChildMap}, order \in {id_order(meta)} :
        /\ \A ip \in FieldIndexes :
              \A secs \in {IF kids[result.pages[ip].id] = {} THEN <<>>
                            ELSE ExpandedOf(result.pages[ip].id)} :
              \A below \in {Below(kids, kids[result.pages[ip].id])} :
              LET p == result.pages[ip].id
                  after(S) == {k \in FieldIndexes : k > ip /\ result.pages[k].id \in S}
              IN /\ after(kids[p]) # {} => (ip + 1) \in after(kids[p])
                 /\ \A ic \in after(below) : \A k \in (ip + 1)..(ic - 1) : k \in after(below)
                 /\ \A n \in 1..Len(secs) :
                       \A j1, j2 \in 1..Len(secs[n].fields) :
                          LET c1 == secs[n].fields[j1]
                              c2 == secs[n].fields[j2]
                          IN (j1 < j2 /\ after({c1}) # {} /\ after({c2}) # {}) =>
                                \/ IndexOf(c1) < IndexOf(c2)
                                \/ c2 \in Below(kids, EarlierChildren(p, n, j1))
                 /\ (\A k \in FieldIndexes : ~Unanswered(result.pages[k].id)) =>
                       \A c \in kids[p] : renders(meta, c) => Paged(c)
                 /\ Unanswered(p) => (ip + 1) \notin FieldIndexes
        /\ \A i1, i2 \in 1..Len(order) :
              (i1 < i2 /\ Paged(order[i1]) /\ Paged(order[i2])) =>
                 \/ IndexOf(order[i1]) < IndexOf(order[i2])
                 \/ order[i2] \in Below(kids, {order[i] : i \in 1..(i1 - 1)})

\* a page with an expanded section of which two children have pages after it,
\* the pages below the first child standing between them
C28_Witness ==
    /\ Returned
    /\ \E ip \in FieldIndexes : \E sec \in Range(ExpandedOf(result.pages[ip].id)) :
          \E j1, j2 \in 1..Len(sec.fields) :
             /\ j1 < j2
             /\ Paged(sec.fields[j1]) /\ Paged(sec.fields[j2])
             /\ IndexOf(sec.fields[j1]) = ip + 1
             /\ IndexOf(sec.fields[j2]) > ip + 2
             /\ result.pages[ip + 2].id \in ActiveChildren(sec.fields[j1])

\* wizard.filter_fields_for_form(form, fd_fields): the ids of the form's
\* top-level fields, of every field below them through section child lists, and
\* of the core subject and description fields
filter_fields_for_form(m) ==
    (Descendants(m, Range(normalize_id_list(m.order))) \cap FieldIds)
       \cup {fid \in FieldIds : by_id(fid).type \in {"default_subject", "default_description"}}

FormSectionsWith(m, fid) ==
    {sec \in Range(AllSections) :
        sec.id \in m.secs /\ section_in_form(m, sec) /\ fid \in Range(sec.fields)}

\* C30: a field that is listed in the form's top-level order and is a child of
\* one of the form's sections has a page only when one of those sections was
\* expanded for its parent's answer, and then after that parent's page.
C30_ConditionalChildNeverTopLevel ==
    Returned =>
        \A c \in Range(meta.order) :
            (FormSectionsWith(meta, c) # {} /\ Paged(c)) =>
                \E sec \in FormSectionsWith(meta, c) :
                    /\ sec.id \in result.expanded
                    /\ Paged(sec.parent)
                    /\ IndexOf(sec.parent) < IndexOf(c)

\* ------------------------------------------------ claims on the wizard's views

\* C31: a wizard view has the submit button and the wizard_submit callback
\* exactly when its page item is Terminal, a Back button exactly when its page
\* index is above 0 and a Next button exactly when the index is below the last;
\* and every ticket submission handled came from a view showing Terminal.
C31_NavigationAffordances ==
    /\ view.kind = "wizard" =>
          /\ view.submit <=> view.item = Terminal
          /\ view.callback_id = "wizard_submit" <=> view.item = Terminal
          /\ "wizard_prev" \in view.nav_elems <=> view.page_index > 0
          /\ "wizard_next" \in view.nav_elems <=> view.page_index < view.total - 1
          /\ view.page_index \in 0..(view.total - 1)
    /\ last.op = "submit" => last.item = Terminal

\* a refused submission leaves the Terminal view, with Back and without Next,
\* on the screen
C31_Witness ==
    /\ last.op = "submit"
    /\ ~last.created
    /\ view.kind = "wizard"
    /\ view.item = Terminal
    /\ view.submit
    /\ view.nav_elems = {"wizard_prev"}
    /\ view.total > 2

\* the block ids of the inputs the pages of a page list show
InputNames(pages) ==
    UNION {{blocks[i].block_id : i \in 1..Len(blocks)} :
             blocks \in {build_fields_for_page(pages[j]) : j \in 1..Len(pages)}}

\* C32: at a submission, every non-null answer the user typed on a page of the
\* final page list (Core and the children of a nested container included) is in
\* the merged answers handed to modal_values_to_fd_ticket, and the ticket has
\* the typed subject and description.
C32_NoAnswerLoss ==
    last.op = "submit" =>
       \A noted \in {entered[last.token]} :
       \A shown \in {InputNames(compute_pages(meta, last.merged))} :
          /\ \A k \in DOMAIN noted \cap shown :
                extract_input(noted[k]) # NoneV =>
                   k \in DOMAIN last.merged /\ last.merged[k] = noted[k]
          /\ \A k \in DOMAIN noted \cap {"subject"} :
                Truthy(extract_input(noted[k])) =>
                   last.ticket.subject = PyStr(extract_input(noted[k]))
          /\ \A k \in DOMAIN noted \cap {"description"} :
                Truthy(extract_input(noted[k])) =>
                   last.ticket.description = PyStr(extract_input(noted[k]))

\* ------------------------------------- update_wizard's two page computations

\* wizard.py 264-280 on the stored answers: the pages of the merged answers,
\* the prune against them, and the pages of what is left
PruneAndRecompute ==
    /\ calls = <<>>
    /\ \E st1 \in {traverse(meta, answers)} :
       \E pruned \in {prune(answers, valid_names(finish(st1)))} :
       \E st2 \in {traverse(meta, pruned)} :
       \E memo \in {fill(SECTIONS_CACHE, meta,
                         consulted(meta, answers, st1) \cup consulted(meta, pruned, st2))} :
         /\ calls' = <<[values |-> answers, returned |-> returned_from(st1),
                        filled |-> DOMAIN memo \ DOMAIN SECTIONS_CACHE,
                        fetched |-> (fetched_choices(meta, st1) \cup fetched_choices(meta, st2)) \ choices,
                        edits |-> edits],
                       [values |-> pruned, returned |-> returned_from(st2),
                        filled |-> {}, fetched |-> {}, edits |-> edits]>>
         /\ SECTIONS_CACHE' = memo
         /\ choices' = choices \cup fetched_choices(meta, st1) \cup fetched_choices(meta, st2)
    /\ UNCHANGED <<meta, answers, result, wizardVars, _SCRAPED_SECTIONS, _FIELDS_CACHE, edits, lookup, ticketVars, auditVars>>

NextPrune == PruneAndRecompute

SpecPrune == InitPages /\ [][NextPrune]_vars

\* C33: the page list of the merged answers equals the page list recomputed
\* after the prune, and pruning the pruned answers against the recomputed list
\* removes nothing.
C33_PruneFixpoint ==
    calls # <<>> =>
       /\ calls[2].returned.pages = calls[1].returned.pages
       /\ prune(calls[2].values, valid_names(calls[2].returned.pages)) = calls[2].values

\* the prune removed an answer, and an answer it kept opened a section
C33_Witness ==
    /\ calls # <<>>
    /\ DOMAIN calls[2].values # DOMAIN calls[1].values
    /\ calls[2].values # <<>>
    /\ calls[2].returned.expanded # {}

\* ------------------------------------------------ claims on the stored session

\* the field pages of a page list that are not nested containers and have no
\* answer in values
OpenQuestions(pages, values) ==
    {i \in 1..Len(pages) :
        /\ IsFieldPage(pages[i])
        /\ by_id(pages[i].id).type # "nested_field"
        /\ selected_value_for(by_id(pages[i].id), values) = NoneV}

\* C34: with the events of a session handled one at a time, each carrying the
\* inputs of the view shown last, every field page that is not a nested
\* container and lies before the session's page index has a non-null answer;
\* so the current page is Core or Terminal only when no such page is open.
C34_NoSkippedQuestion ==
    \A token \in Stored :
       \A sess \in {WIZARD_SESSIONS[token]} :
       \A pages \in {compute_pages(meta, sess.values)} :
          \A i \in OpenQuestions(pages, sess.values) : i > clamp(sess.page, Len(pages))

\* C35: for every wizard token at most one ticket is created, also when the
\* submission is delivered twice or arrives after the session was removed.
C35_AtMostOneTicket ==
    \A token \in DOMAIN tickets : tickets[token] <= 1

\* C36: a step of update_wizard leaves the set of stored tokens as it was (a
\* token removed at submission does not come back), leaves every session
\* other than the event's own untouched, and leaves the form id of every
\* session as it was.
C36_NavigationFrame ==
    [][last'.op = "update" =>
         /\ DOMAIN WIZARD_SESSIONS' = DOMAIN WIZARD_SESSIONS
         /\ \A t \in Stored \ {last'.token} : WIZARD_SESSIONS'[t] = WIZARD_SESSIONS[t]
         /\ \A t \in Stored :
               WIZARD_SESSIONS'[t].ticket_form_id = WIZARD_SESSIONS[t].ticket_form_id]_vars

\* a navigation event of a submitted wizard was handled after its session
\* had been removed
C36_Witness ==
    /\ last.op = "update"
    /\ last.stage = "expired"
    /\ last.nav = "prev"
    /\ view.kind = "done"
    /\ last.token = view.token
    /\ last.token \notin Stored

\* C37: once update_wizard has returned, the page index stored in the session
\* is the page index of the view the user has on the screen, also when the
\* view update was refused.
C37_SessionAndViewInStep ==
    (/\ last.op = "update"
     /\ last.token \in Stored
     /\ view.kind = "wizard"
     /\ view.token = last.token)
       => WIZARD_SESSIONS[last.token].page = view.page_index

\* ------------------------------------------------ termination of compute_pages

\* the number of child references the sections of S hold
RECURSIVE ChildReferences(_)
ChildReferences(S) ==
    IF S = {} THEN 0
    ELSE LET sid == CHOOSE x \in S : TRUE
             sec == AllSections[CHOOSE i \in 1..Len(AllSections) : AllSections[i].id = sid]
         IN Len(sec.fields) + ChildReferences(S \ {sid})

\* C38: compute_pages returns for every field graph, cyclic ones included: it
\* calls add_field_and_children at most once for each top-level field and once
\* for each child reference of a section it expanded (so no field is expanded
\* twice), no field has two pages, and the list ends with Core, Terminal.
C38_TerminatesOnCycles ==
    Returned =>
       /\ Len(result.refs) <= Len(id_order(meta)) + ChildReferences(result.expanded)
       /\ \A k \in 1..Len(result.refs) : Count(result.pages, FieldPage(result.refs[k])) <= 1
       /\ Len(result.pages) >= 2
       /\ SubSeq(result.pages, Len(result.pages) - 1, Len(result.pages)) = <<Core, Terminal>>

\* urgent opens the section holding region and region opens the section whose
\* last child is urgent again: the traversal came back to its starting field
C38_Witness ==
    /\ Returned
    /\ result.expanded = {20, 30}
    /\ Len(result.refs) > 2
    /\ result.refs[1] = 3
    /\ result.refs[Len(result.refs)] = 3
    /\ FieldPage(2) \in Range(result.pages)
    /\ Count(result.pages, FieldPage(3)) = 1

====
